---------------------------- MODULE Spec2Model ----------------------------
(***************************************************************************)
(* The triple-buffer shared-memory transport of                            *)
(* src/src/cpp/common/shm_manager.cpp (ShmManager, WriteBufferGuard,       *)
(* ReadBufferGuard, the C interface) over the control block of             *)
(* src/src/cpp/common/shm_types.h (ShmBufferControl).                      *)
(*                                                                         *)
(* Spec     one writer process and one reader process attached to the same *)
(*          region through separate ShmManager instances; every atomic     *)
(*          load and store of the control block is one step.               *)
(* SpecHold the writer process of Spec alone, holding up to two            *)
(*          WriteBufferGuard objects at once.                              *)
(* SpecSeq  one thread calling the interface of one manager (the C++       *)
(*          guards, write_and_switch, try_read_latest, the C read          *)
(*          interface), each call taken whole.                             *)
(* SpecLife two managers of the same name, each with its own thread, going *)
(*          through their lifecycle (create_and_init, open_and_map,        *)
(*          unmap_and_close, unlink_shm) and using the region, each call   *)
(*          taken whole.                                                   *)
(* SpecLock two threads calling the lifecycle of one manager, every system  *)
(*          call one step.                                                  *)
(* SpecImage one ImageShmManager and its thread: write_image, read_image   *)
(*          and raw write_and_switch on the framed region, each call taken *)
(*          whole.                                                         *)
(*                                                                         *)
(* Unsigned cells (uint32_t, uint64_t, size_t) hold the signed integer     *)
(* with the same bit pattern: 0 - 1 is -1, the all-ones pattern, and       *)
(* ULess compares as the hardware compares unsigned values.                *)
(***************************************************************************)
EXTENDS Integers, Sequences, FiniteSets, TLC

\* ------------------------------------------------------------- constants

\* shm_types.h: constexpr uint32_t NUM_BUFFERS = 3
NUM_BUFFERS == 3

\* UINT64_MAX, the all-ones pattern (the writer scan's initial min_version)
UINT64_MAX == -1

\* buffer_size_ of the managers (B), in bytes
BufSize == 2

\* the number of frames the writer of Spec commits
MaxVersion == 5

\* SpecSeq: the guards of each kind the caller keeps alive at once
MaxGuards == 2

\* SpecSeq: the largest frame version the caller passes to commit
MaxSeqVersion == 2

\* SpecSeq: the calls the thread makes
MaxCalls == 5

\* SpecSeq: the largest byte value of a payload
MaxByte == 2

\* SpecLife: the calls the two threads make
LifeCalls == 5

\* sizeof(ShmBufferControl): 3 * 8 + 3 * 8 + 3 * 1 (+ 1 padding) + 3 * 4
HeaderSize == 64

\* SIZE_MAX + 1 of the size_t of SpecLife, scaled down from 2^64
SizeModulus == 256

\* SpecImage: the calls the thread makes
ImgCalls == 3

\* sizeof(ImageHeader): five 4-byte fields, frame_type and 3 bytes of padding
HEADER_SIZE == 24

\* UINT32_MAX + 1 of ImageHeader::data_size in SpecImage, scaled down from
\* 2^32
DataSizeModulus == 2

\* SpecLock: the calls the two threads make
LockCalls == 4

Buffers == 0 .. (NUM_BUFFERS - 1)

WSlots == 1 .. MaxGuards

RSlots == 1 .. MaxGuards

\* a call that returns no status, or none made yet
NoReturn == [call |-> "none", status |-> "none"]

\* an empty guard slot, an absent map entry
NoGuard == [live |-> FALSE]

Cells == 1 .. BufSize

\* ------------------------------------------------------ unsigned integers

\* a < b on unsigned cells
ULess(a, b) == IF (a < 0) = (b < 0) THEN a < b ELSE b < 0

\* fetch_add(1) and fetch_sub(1) on an unsigned cell: the new value (wraps)
UInc(a) == a + 1

UDec(a) == a - 1

\* `load() > 0` on an unsigned cell
UPositive(a) == a # 0

\* std::min as it would be if it returned its first argument
MinFirst(a, b) == a

\* std::min on size_t
Min(a, b) == IF ULess(b, a) THEN b ELSE a

\* ------------------------------------------------------------- the state

VARIABLES
  frame_version,        \* ShmBufferControl::frame_version[NUM_BUFFERS]
  buffer_data_size,     \* ShmBufferControl::buffer_data_size[NUM_BUFFERS]
  buffer_ready,         \* ShmBufferControl::buffer_ready[NUM_BUFFERS]
  buffer_reader_count,  \* ShmBufferControl::buffer_reader_count[NUM_BUFFERS]
  data,                 \* the bytes of the data buffers
  state_mutex,          \* per manager: TRUE while its state_mutex_ is owned
  pc,                   \* per process: where its thread stands
  wg,                   \* the writer process's WriteBufferGuard and locals
  wkept,                \* SpecHold: the WriteBufferGuard the writer process
                        \* has set aside, uncommitted, to work with another
  rg,                   \* the reader process's ReadBufferGuard and locals
  wver,                 \* the version of the writer's latest commit
  rprev,                \* the version the reader's previous acquisition reported
  rhidden,              \* history: the buffers that were not ready when the
                        \* reader's latest scan began and that no commit has
                        \* published since
  wguards,              \* SpecSeq: the caller's WriteBufferGuard objects
  rguards,              \* SpecSeq: the caller's ReadBufferGuard objects
  read_guards,          \* SpecSeq: the C interface's map read_guards
  creads,               \* SpecSeq: per buffer, the pointers the C interface
                        \* returned to readers and that they have not released
  calls,                \* SpecSeq: the calls the thread has made
  ret,                  \* SpecSeq, SpecLife: what the latest call returned
  mgr,                  \* SpecLife: per manager, the fields of ShmManager
  shm,                  \* SpecLife: the name in the system: whether a shared
                        \* memory object has it, and the object's size
  lw,                   \* SpecLife: per manager, its thread's WriteBufferGuard
  lr,                   \* SpecLife: per manager, its thread's ReadBufferGuard
  hdr                   \* SpecImage: per buffer, the ImageHeader its first
                        \* HEADER_SIZE bytes hold; data is what follows them

vars == <<frame_version, buffer_data_size, buffer_ready, buffer_reader_count,
          data, state_mutex, pc, wg, wkept, rg, wver, rprev, rhidden,
          wguards, rguards, read_guards, creads, calls, ret,
          mgr, shm, lw, lr, hdr>>

\* what the two processes of Spec never touch
callvars == <<wguards, rguards, read_guards, creads, calls, ret,
              mgr, shm, lw, lr, hdr>>

\* what the two processes of Spec leave alone
seqvars == <<wkept, rhidden, callvars>>

\* what the caller of SpecSeq leaves alone
concvars == <<state_mutex, wg, wkept, rg, wver, rprev, rhidden,
              mgr, shm, lw, lr, hdr>>

\* what the threads of SpecLife leave alone
quietvars == <<state_mutex, wg, wkept, rg, wver, rprev, rhidden,
               wguards, rguards, read_guards, creads, hdr>>

region == <<frame_version, buffer_data_size, buffer_ready,
            buffer_reader_count, data>>

\* SpecLife: the two ShmManager objects constructed with the same shm_name
Managers == {"a", "b"}

\* SpecLock: the two threads that share one ShmManager object
Threads == {"t", "u"}

Procs == {"w", "r", "s"} \cup Managers \cup Threads

\* the ImageHeader that zero bytes hold; YUYV is the first enumerator
ZeroHeader ==
  [format |-> "YUYV", width |-> 0, height |-> 0, channels |-> 0,
   data_size |-> 0, frame_type |-> 0]

\* ShmManager's constructor; it leaves the two atomic size fields without a
\* value
NewManager ==
  [state_ |-> "Uninitialized", shm_fd_ |-> -1, shm_ptr_ |-> "nullptr",
   is_creator_ |-> FALSE, buffer_size_ |-> "indeterminate",
   current_shm_size_ |-> "indeterminate"]

\* ShmBufferControl::initialize() on a freshly truncated (zero-filled) region
ControlInit ==
  /\ frame_version = [i \in Buffers |-> 0]
  /\ buffer_data_size = [i \in Buffers |-> 0]
  /\ buffer_ready = [i \in Buffers |-> FALSE]
  /\ buffer_reader_count = [i \in Buffers |-> 0]
  /\ data = [i \in Buffers |-> [k \in Cells |-> 0]]

\* WriteBufferGuard's constructor initialisers
NoWriteGuard == [buffer_idx_ |-> 0, capacity_ |-> 0, filled |-> 0]

\* ReadBufferGuard's constructor initialisers and the scan's locals;
\* size_commit is history: the version of the commit whose store the load of
\* the data size read
NoReadGuard ==
  [i |-> 0, latest_idx |-> 0, max_version |-> 0, found_latest |-> FALSE,
   buffer_idx_ |-> 0, size_ |-> 0, frame_version_ |-> 0, size_commit |-> 0]

Init ==
  /\ ControlInit
  /\ state_mutex = [p \in Procs |-> FALSE]
  /\ pc = [p \in Procs |-> "idle"]
  /\ wg = NoWriteGuard
  /\ wkept = NoGuard
  /\ rg = NoReadGuard
  /\ wver = 0
  /\ rprev = 0
  /\ rhidden = {}
  /\ wguards = [s \in WSlots |-> NoGuard]
  /\ rguards = [s \in RSlots |-> NoGuard]
  /\ read_guards = [i \in Buffers |-> NoGuard]
  /\ creads = [i \in Buffers |-> 0]
  /\ calls = 0
  /\ ret = NoReturn
  /\ mgr = [m \in Managers |-> NewManager]
  /\ shm = [exists |-> FALSE, size |-> 0]
  /\ lw = [m \in Managers |-> NoGuard]
  /\ lr = [m \in Managers |-> NoGuard]
  /\ hdr = [i \in Buffers |-> ZeroHeader]


\* ------------------------------------------------------ buffer selection

\* the scan step with `<=` in place of `<`: ties go to the highest index
WScanStepLastOnTies(acc, i, fv) ==
  IF ~ ULess(acc.min_version, fv[i])
    THEN [write_idx |-> i, min_version |-> fv[i]]
    ELSE acc

\* one iteration of the writer's scan (internal_acquire_write_buffer's loop)
WScanStep(acc, i, fv) ==
  IF ULess(fv[i], acc.min_version)
    THEN [write_idx |-> i, min_version |-> fv[i]]
    ELSE acc

RECURSIVE WScan(_, _, _)
WScan(acc, i, fv) ==
  IF i >= NUM_BUFFERS THEN acc ELSE WScan(WScanStep(acc, i, fv), i + 1, fv)

\* the scan as it would be with min_version starting at 0: no version is
\* below it and write_idx stays 0
WriteSelectFromZero(fv) ==
  WScan([write_idx |-> 0, min_version |-> 0], 0, fv).write_idx

\* the buffer the writer's scan selects: write_idx after the loop
WriteSelect(fv) ==
  WScan([write_idx |-> 0, min_version |-> UINT64_MAX], 0, fv).write_idx

\* the reader's scan taken in one piece over the flags rdy and versions fv
RECURSIVE RScan(_, _, _, _)

\* the reader scan's update on a ready buffer i whose version it loaded as cv
RScanStep(acc, i, cv) ==
  IF ULess(acc.max_version, cv)
    THEN [acc EXCEPT !.max_version = cv, !.latest_idx = i,
                     !.found_latest = TRUE]
    ELSE acc

RScan(acc, i, rdy, fv) ==
  IF i >= NUM_BUFFERS
    THEN acc
    ELSE RScan(IF rdy[i] THEN RScanStep(acc, i, fv[i]) ELSE acc, i + 1, rdy, fv)

\* latest_idx and found_latest after the reader's loop
ReadSelect(rdy, fv) ==
  RScan([max_version |-> 0, latest_idx |-> 0, found_latest |-> FALSE],
        0, rdy, fv)

\* -------------------------------------------- get_data_buffer's re-lock

(* internal_acquire_write_buffer and internal_acquire_read_buffer hold      *)
(* state_mutex_ (a std::mutex) when they call get_data_buffer, which locks  *)
(* it again from the same thread.  That is undefined behaviour: the build   *)
(* either blocks the thread for ever on its own mutex (glibc's default      *)
(* mutex) or lets it through (lock elision, or a libstdc++ whose gthread    *)
(* layer is inactive because the program is not linked with libpthread).    *)
RelockBlocks(p, at) ==
  /\ pc[p] = at
  /\ state_mutex[p]
  /\ pc' = [pc EXCEPT ![p] = "blocked"]
  /\ UNCHANGED <<region, state_mutex, wg, rg, wver, rprev>>
  /\ UNCHANGED seqvars

\* ------------------------------------------------- the writer process

\* WriteBufferGuard(manager, e): internal_acquire_write_buffer up to the end
\* of its scan.  Only this process stores frame_version, so the scan's three
\* loads are taken in one step.
W_Acquire(e) ==
  /\ pc["w"] = "idle"
  /\ wver < MaxVersion
  /\ IF ULess(BufSize, e)
       THEN UNCHANGED <<pc, wg, state_mutex>>
       ELSE /\ state_mutex' = [state_mutex EXCEPT !["w"] = TRUE]
            /\ wg' = [NoWriteGuard EXCEPT !.buffer_idx_ = WriteSelect(frame_version),
                                          !.capacity_ = e]
            /\ pc' = [pc EXCEPT !["w"] = "w_check"]
  /\ UNCHANGED <<region, rg, wver, rprev>>
  /\ UNCHANGED seqvars

\* the load of buffer_reader_count[write_idx]; > 0 returns nullptr
W_CheckReaders ==
  /\ pc["w"] = "w_check"
  /\ IF UPositive(buffer_reader_count[wg.buffer_idx_])
       THEN /\ pc' = [pc EXCEPT !["w"] = "idle"]
            /\ wg' = NoWriteGuard
            /\ state_mutex' = [state_mutex EXCEPT !["w"] = FALSE]
       ELSE /\ pc' = [pc EXCEPT !["w"] = "w_hide"]
            /\ UNCHANGED <<wg, state_mutex>>
  /\ UNCHANGED <<region, rg, wver, rprev>>
  /\ UNCHANGED seqvars

\* the acquisition as it would be without its store to buffer_ready
W_HideNothing ==
  /\ pc["w"] = "w_hide"
  /\ pc' = [pc EXCEPT !["w"] = "w_getbuf"]
  /\ UNCHANGED <<region, state_mutex, wg, rg, wver, rprev>>
  /\ UNCHANGED seqvars

\* buffer_ready[write_idx].store(false)
W_Hide ==
  /\ pc["w"] = "w_hide"
  /\ buffer_ready' = [buffer_ready EXCEPT ![wg.buffer_idx_] = FALSE]
  /\ pc' = [pc EXCEPT !["w"] = "w_getbuf"]
  /\ UNCHANGED <<frame_version, buffer_data_size, buffer_reader_count, data,
                 state_mutex, wg, rg, wver, rprev>>
  /\ UNCHANGED seqvars

W_RelockBlocks == RelockBlocks("w", "w_getbuf")

\* get_data_buffer returns the buffer; the guard is valid
W_RelockProceeds ==
  /\ pc["w"] = "w_getbuf"
  /\ pc' = [pc EXCEPT !["w"] = "w_hold"]
  /\ state_mutex' = [state_mutex EXCEPT !["w"] = FALSE]
  /\ UNCHANGED <<region, wg, rg, wver, rprev>>
  /\ UNCHANGED seqvars

\* the producer writes the next byte of its frame through guard.get(); the
\* byte carries the version the frame will be committed with
W_Fill ==
  /\ pc["w"] = "w_hold"
  /\ wg.filled < wg.capacity_
  /\ data' = [data EXCEPT ![wg.buffer_idx_][wg.filled + 1] = wver + 1]
  /\ wg' = [wg EXCEPT !.filled = wg.filled + 1]
  /\ UNCHANGED <<frame_version, buffer_data_size, buffer_ready,
                 buffer_reader_count, state_mutex, pc, rg, wver, rprev>>
  /\ UNCHANGED seqvars

\* guard.commit(filled, wver + 1): internal_commit_write_buffer's first store
W_Commit ==
  /\ pc["w"] = "w_hold"
  /\ wg.filled >= 1
  /\ ~ ULess(wg.capacity_, wg.filled)
  /\ state_mutex' = [state_mutex EXCEPT !["w"] = TRUE]
  /\ buffer_data_size' = [buffer_data_size EXCEPT ![wg.buffer_idx_] = wg.filled]
  /\ pc' = [pc EXCEPT !["w"] = "c_version"]
  /\ UNCHANGED <<frame_version, buffer_ready, buffer_reader_count, data,
                 wg, rg, wver, rprev>>
  /\ UNCHANGED seqvars

\* frame_version[buffer_idx].store(frame_version)
W_StoreVersion ==
  /\ pc["w"] = "c_version"
  /\ frame_version' = [frame_version EXCEPT ![wg.buffer_idx_] = wver + 1]
  /\ pc' = [pc EXCEPT !["w"] = "c_ready"]
  /\ UNCHANGED <<buffer_data_size, buffer_ready, buffer_reader_count, data,
                 state_mutex, wg, rg, wver, rprev>>
  /\ UNCHANGED seqvars

\* buffer_ready[buffer_idx].store(true); commit returns Success
W_StoreReady ==
  /\ pc["w"] = "c_ready"
  /\ buffer_ready' = [buffer_ready EXCEPT ![wg.buffer_idx_] = TRUE]
  /\ pc' = [pc EXCEPT !["w"] = "idle"]
  /\ state_mutex' = [state_mutex EXCEPT !["w"] = FALSE]
  /\ wg' = NoWriteGuard
  /\ wver' = wver + 1
  /\ rhidden' = rhidden \ {wg.buffer_idx_}
  /\ UNCHANGED <<frame_version, buffer_data_size, buffer_reader_count, data,
                 rg, rprev>>
  /\ UNCHANGED <<wkept, callvars>>

\* ~WriteBufferGuard without commit: internal_release_write_buffer stores
\* nothing
W_Drop ==
  /\ pc["w"] = "w_hold"
  /\ pc' = [pc EXCEPT !["w"] = "idle"]
  /\ wg' = NoWriteGuard
  /\ UNCHANGED <<region, state_mutex, rg, wver, rprev>>
  /\ UNCHANGED seqvars

(* The writer thread may hold two WriteBufferGuard objects at once: it     *)
(* keeps the guard it has just been granted in scope, unfilled and          *)
(* uncommitted, makes another acquisition, and later turns to the guard it  *)
(* kept.  The manager keeps no record of a guard.                           *)
W_SetAside ==
  /\ pc["w"] = "w_hold"
  /\ wg.filled = 0
  /\ ~ wkept.live
  /\ wkept' = [live |-> TRUE, buffer_idx_ |-> wg.buffer_idx_,
               capacity_ |-> wg.capacity_]
  /\ wg' = NoWriteGuard
  /\ pc' = [pc EXCEPT !["w"] = "idle"]
  /\ UNCHANGED <<region, state_mutex, rg, wver, rprev, rhidden>>
  /\ UNCHANGED callvars

\* the writer turns to the guard it set aside
W_TakeUp ==
  /\ pc["w"] = "idle"
  /\ wkept.live
  /\ wg' = [NoWriteGuard EXCEPT !.buffer_idx_ = wkept.buffer_idx_,
                                !.capacity_ = wkept.capacity_]
  /\ wkept' = NoGuard
  /\ pc' = [pc EXCEPT !["w"] = "w_hold"]
  /\ UNCHANGED <<region, state_mutex, rg, wver, rprev, rhidden>>
  /\ UNCHANGED callvars

\* ------------------------------------------------- the reader process

\* ReadBufferGuard(manager): internal_acquire_read_buffer up to its loop
R_Begin ==
  /\ pc["r"] = "idle"
  /\ state_mutex' = [state_mutex EXCEPT !["r"] = TRUE]
  /\ rg' = NoReadGuard
  /\ pc' = [pc EXCEPT !["r"] = "r_ready"]
  /\ rhidden' = {i \in Buffers : ~ buffer_ready[i]}
  /\ UNCHANGED <<region, wg, wver, rprev>>
  /\ UNCHANGED <<wkept, callvars>>

\* the end of one iteration of the reader's loop, and the test after the
\* loop: NoDataAvailable unless found_latest
RAdvance(acc) ==
  IF acc.i + 1 < NUM_BUFFERS
    THEN /\ rg' = [acc EXCEPT !.i = acc.i + 1]
         /\ pc' = [pc EXCEPT !["r"] = "r_ready"]
         /\ UNCHANGED state_mutex
    ELSE IF acc.found_latest
      THEN /\ rg' = acc
           /\ pc' = [pc EXCEPT !["r"] = "r_inc"]
           /\ UNCHANGED state_mutex
      ELSE /\ rg' = NoReadGuard
           /\ pc' = [pc EXCEPT !["r"] = "idle"]
           /\ state_mutex' = [state_mutex EXCEPT !["r"] = FALSE]

\* buffer_ready[i].load()
R_LoadReady ==
  /\ pc["r"] = "r_ready"
  /\ IF buffer_ready[rg.i]
       THEN /\ pc' = [pc EXCEPT !["r"] = "r_version"]
            /\ UNCHANGED <<rg, state_mutex>>
       ELSE RAdvance(rg)
  /\ UNCHANGED <<region, wg, wver, rprev>>
  /\ UNCHANGED seqvars

\* frame_version[i].load() and the comparison with max_version
R_LoadVersion ==
  /\ pc["r"] = "r_version"
  /\ RAdvance(RScanStep(rg, rg.i, frame_version[rg.i]))
  /\ UNCHANGED <<region, wg, wver, rprev>>
  /\ UNCHANGED seqvars

\* buffer_reader_count[latest_idx].fetch_add(1)
R_FetchAdd ==
  /\ pc["r"] = "r_inc"
  /\ buffer_reader_count' =
       [buffer_reader_count EXCEPT ![rg.latest_idx] = UInc(@)]
  /\ rg' = [rg EXCEPT !.buffer_idx_ = rg.latest_idx]
  /\ pc' = [pc EXCEPT !["r"] = "r_size"]
  /\ UNCHANGED <<frame_version, buffer_data_size, buffer_ready, data,
                 state_mutex, wg, wver, rprev>>
  /\ UNCHANGED seqvars

\* the version of the commit that stored the present buffer_data_size[i]:
\* a commit stores the size first, so between its first two stores the size
\* is already its own while frame_version[i] is still the previous commit's
SizeCommit(i) ==
  IF pc["w"] = "c_version" /\ wg.buffer_idx_ = i
    THEN wver + 1
    ELSE frame_version[i]

\* *data_size = buffer_data_size[latest_idx].load()
R_LoadSize ==
  /\ pc["r"] = "r_size"
  /\ rg' = [rg EXCEPT !.size_ = buffer_data_size[rg.latest_idx],
                      !.size_commit = SizeCommit(rg.latest_idx)]
  /\ pc' = [pc EXCEPT !["r"] = "r_reread"]
  /\ UNCHANGED <<region, state_mutex, wg, wver, rprev>>
  /\ UNCHANGED seqvars

\* *frame_version = frame_version[latest_idx].load()
R_RereadVersion ==
  /\ pc["r"] = "r_reread"
  /\ rg' = [rg EXCEPT !.frame_version_ = frame_version[rg.latest_idx]]
  /\ pc' = [pc EXCEPT !["r"] = "r_getbuf"]
  /\ UNCHANGED <<region, state_mutex, wg, wver, rprev>>
  /\ UNCHANGED seqvars

R_RelockBlocks == RelockBlocks("r", "r_getbuf")

\* get_data_buffer returns the buffer; the guard is valid
R_RelockProceeds ==
  /\ pc["r"] = "r_getbuf"
  /\ pc' = [pc EXCEPT !["r"] = "r_hold"]
  /\ state_mutex' = [state_mutex EXCEPT !["r"] = FALSE]
  /\ UNCHANGED <<region, wg, rg, wver, rprev>>
  /\ UNCHANGED seqvars

\* ~ReadBufferGuard: internal_release_read_buffer's fetch_sub(1)
R_Release ==
  /\ pc["r"] = "r_hold"
  /\ buffer_reader_count' =
       [buffer_reader_count EXCEPT ![rg.buffer_idx_] = UDec(@)]
  /\ rprev' = rg.frame_version_
  /\ rg' = NoReadGuard
  /\ pc' = [pc EXCEPT !["r"] = "idle"]
  /\ UNCHANGED <<frame_version, buffer_data_size, buffer_ready, data,
                 state_mutex, wg, wver>>
  /\ UNCHANGED seqvars

Next ==
  \/ \E e \in 1 .. (BufSize + 1) : W_Acquire(e)
  \/ W_CheckReaders
  \/ W_Hide
  \/ W_RelockBlocks
  \/ W_RelockProceeds
  \/ W_Fill
  \/ W_Commit
  \/ W_StoreVersion
  \/ W_StoreReady
  \/ W_Drop
  \/ R_Begin
  \/ R_LoadReady
  \/ R_LoadVersion
  \/ R_FetchAdd
  \/ R_LoadSize
  \/ R_RereadVersion
  \/ R_RelockBlocks
  \/ R_RelockProceeds
  \/ R_Release

Spec == Init /\ [][Next]_vars

\* the writer process alone, holding up to two guards at once
HoldNext ==
  \/ \E e \in 1 .. (BufSize + 1) : W_Acquire(e)
  \/ W_CheckReaders
  \/ W_Hide
  \/ W_RelockBlocks
  \/ W_RelockProceeds
  \/ W_Fill
  \/ W_Commit
  \/ W_StoreVersion
  \/ W_StoreReady
  \/ W_Drop
  \/ W_SetAside
  \/ W_TakeUp

SpecHold == Init /\ [][HoldNext]_vars


\* ------------------------------------------------------------- SpecSeq
(* One thread calls the interface of one manager, each call taken whole.   *)
(* The thread keeps up to MaxGuards guards of each kind alive and holds up *)
(* to MaxGuards pointers obtained from the C interface.                    *)

\* a WriteBufferGuard after its constructor
WriteGuard(ok, e, idx) ==
  [live |-> TRUE, buffer_ |-> ok, capacity_ |-> e, buffer_idx_ |-> idx,
   committed_ |-> FALSE]

\* a ReadBufferGuard after its constructor
ReadGuard(ok, sz, fv, idx, st) ==
  [live |-> TRUE, buffer_ |-> ok, size_ |-> sz, frame_version_ |-> fv,
   buffer_idx_ |-> idx, status_ |-> st]

\* the thread is free to make its next call
Call ==
  /\ pc["s"] = "idle"
  /\ calls < MaxCalls
  /\ calls' = calls + 1

\* the call returns r; NoReturn for a guard, a pointer or nothing
Returns(r) == ret' = r

\* the thread blocks for ever in get_data_buffer's re-lock
SeqBlocks == pc' = [pc EXCEPT !["s"] = "blocked"]

\* acquire_write_buffer as it would be if it stored buffer_ready[write_idx]
\* = false before loading buffer_reader_count[write_idx]
S_AcquireWriteHideFirst(s, e) ==
  /\ Call
  /\ Returns(NoReturn)
  /\ ~ wguards[s].live
  /\ LET idx == WriteSelect(frame_version) IN
       IF ULess(BufSize, e)
         THEN /\ wguards' = [wguards EXCEPT ![s] = WriteGuard(FALSE, e, 0)]
              /\ UNCHANGED <<buffer_ready, pc>>
         ELSE /\ buffer_ready' = [buffer_ready EXCEPT ![idx] = FALSE]
              /\ IF UPositive(buffer_reader_count[idx])
                   THEN /\ wguards' = [wguards EXCEPT ![s] = WriteGuard(FALSE, e, 0)]
                        /\ UNCHANGED pc
                   ELSE \/ SeqBlocks /\ UNCHANGED wguards
                        \/ /\ wguards' = [wguards EXCEPT ![s] = WriteGuard(TRUE, e, idx)]
                           /\ UNCHANGED pc
  /\ UNCHANGED <<frame_version, buffer_data_size, buffer_reader_count, data,
                 rguards, read_guards, creads>>
  /\ UNCHANGED concvars

\* WriteBufferGuard g = manager.acquire_write_buffer(e), g kept in slot s
S_AcquireWrite(s, e) ==
  /\ Call
  /\ Returns(NoReturn)
  /\ ~ wguards[s].live
  /\ LET idx == WriteSelect(frame_version) IN
       IF ULess(BufSize, e) \/ UPositive(buffer_reader_count[idx])
         THEN /\ wguards' = [wguards EXCEPT ![s] = WriteGuard(FALSE, e, 0)]
              /\ UNCHANGED <<buffer_ready, pc>>
         ELSE /\ buffer_ready' = [buffer_ready EXCEPT ![idx] = FALSE]
              /\ \/ SeqBlocks /\ UNCHANGED wguards
                 \/ /\ wguards' = [wguards EXCEPT ![s] = WriteGuard(TRUE, e, idx)]
                    /\ UNCHANGED pc
  /\ UNCHANGED <<frame_version, buffer_data_size, buffer_reader_count, data,
                 rguards, read_guards, creads>>
  /\ UNCHANGED concvars

\* the bytes of payload x = n bytes b laid over the buffer contents d
Copied(d, n, b) == [k \in Cells |-> IF k <= n THEN b ELSE d[k]]

\* memcpy(g.get(), x, n) for the payload x of n bytes b
S_Copy(s, n, b) ==
  /\ Call
  /\ Returns(NoReturn)
  /\ wguards[s].live /\ wguards[s].buffer_ /\ ~ wguards[s].committed_
  /\ n <= wguards[s].capacity_
  /\ data' = [data EXCEPT ![wguards[s].buffer_idx_] = Copied(@, n, b)]
  /\ UNCHANGED <<frame_version, buffer_data_size, buffer_ready,
                 buffer_reader_count, pc, wguards, rguards, read_guards, creads>>
  /\ UNCHANGED concvars

\* internal_commit_write_buffer(idx, a, v) on an initialized manager
InternalCommit(idx, a, v) ==
  /\ buffer_data_size' = [buffer_data_size EXCEPT ![idx] = a]
  /\ frame_version' = [frame_version EXCEPT ![idx] = v]
  /\ buffer_ready' = [buffer_ready EXCEPT ![idx] = TRUE]

\* g.commit(a, v)
S_Commit(s, a, v) ==
  /\ Call
  /\ wguards[s].live
  /\ IF ~ wguards[s].buffer_ \/ wguards[s].committed_
       THEN /\ Returns([call |-> "commit", status |-> "InvalidArguments"])
            /\ UNCHANGED <<frame_version, buffer_data_size, buffer_ready, wguards>>
       ELSE IF ULess(wguards[s].capacity_, a)
         THEN /\ Returns([call |-> "commit", status |-> "BufferTooSmall"])
              /\ UNCHANGED <<frame_version, buffer_data_size, buffer_ready, wguards>>
         ELSE /\ Returns([call |-> "commit", status |-> "Success"])
              /\ wguards' = [wguards EXCEPT ![s].committed_ = TRUE]
              /\ InternalCommit(wguards[s].buffer_idx_, a, v)
  /\ UNCHANGED <<buffer_reader_count, data, pc, rguards, read_guards, creads>>
  /\ UNCHANGED concvars

\* g goes out of scope: ~WriteBufferGuard
S_DestroyWrite(s) ==
  /\ Call
  /\ Returns(NoReturn)
  /\ wguards[s].live
  /\ wguards' = [wguards EXCEPT ![s] = NoGuard]
  /\ UNCHANGED <<region, pc, rguards, read_guards, creads>>
  /\ UNCHANGED concvars

\* the ReadBufferGuard that internal_acquire_read_buffer fills on the region
\* as it stands, with cnt the reader counts after its fetch_add
AcquiredRead(sel) ==
  ReadGuard(TRUE, buffer_data_size[sel.latest_idx],
            frame_version[sel.latest_idx], sel.latest_idx, "Success")

\* ReadBufferGuard g = manager.acquire_read_buffer(), g kept in slot s
S_AcquireRead(s) ==
  /\ Call
  /\ Returns(NoReturn)
  /\ ~ rguards[s].live
  /\ LET sel == ReadSelect(buffer_ready, frame_version) IN
       IF ~ sel.found_latest
         THEN /\ rguards' = [rguards EXCEPT ![s] =
                               ReadGuard(FALSE, 0, 0, 0, "NoDataAvailable")]
              /\ UNCHANGED <<buffer_reader_count, pc>>
         ELSE /\ buffer_reader_count' =
                   [buffer_reader_count EXCEPT ![sel.latest_idx] = UInc(@)]
              /\ \/ SeqBlocks /\ UNCHANGED rguards
                 \/ /\ rguards' = [rguards EXCEPT ![s] = AcquiredRead(sel)]
                    /\ UNCHANGED pc
  /\ UNCHANGED <<frame_version, buffer_data_size, buffer_ready, data,
                 wguards, read_guards, creads>>
  /\ UNCHANGED concvars

\* g goes out of scope: ~ReadBufferGuard
S_ReleaseRead(s) ==
  /\ Call
  /\ Returns(NoReturn)
  /\ rguards[s].live
  /\ buffer_reader_count' =
       IF rguards[s].buffer_
         THEN [buffer_reader_count EXCEPT ![rguards[s].buffer_idx_] = UDec(@)]
         ELSE buffer_reader_count
  /\ rguards' = [rguards EXCEPT ![s] = NoGuard]
  /\ UNCHANGED <<frame_version, buffer_data_size, buffer_ready, data, pc,
                 wguards, read_guards, creads>>
  /\ UNCHANGED concvars

(* shm_manager_acquire_read_buffer and the last round of                   *)
(* shm_manager_wait_for_data, on a region with a frame to select:          *)
(*   make_unique<ReadBufferGuard>(manager->acquire_read_buffer())          *)
(* copy-constructs the heap guard from the temporary the call returns      *)
(* (ReadBufferGuard declares a destructor and no move constructor), and    *)
(* the temporary's destructor runs at the end of the statement: fetch_sub. *)
(* read_guards[buffer_ptr] = std::move(guard) then destroys the guard the  *)
(* map held for the same pointer, if any: another fetch_sub.               *)
CReadAcquired(sel) ==
  LET idx == sel.latest_idx
      afterTemp == UDec(UInc(buffer_reader_count[idx]))
  IN
  /\ \/ /\ SeqBlocks
        /\ buffer_reader_count' =
             [buffer_reader_count EXCEPT ![idx] = UInc(@)]
        /\ UNCHANGED <<read_guards, creads>>
     \/ /\ buffer_reader_count' =
             [buffer_reader_count EXCEPT ![idx] =
                IF read_guards[idx].live THEN UDec(afterTemp) ELSE afterTemp]
        /\ read_guards' = [read_guards EXCEPT ![idx] = AcquiredRead(sel)]
        /\ creads' = [creads EXCEPT ![idx] = @ + 1]
        /\ UNCHANGED pc

\* the pointers the C interface has handed out and not got back
CHeld == creads[0] + creads[1] + creads[2]

\* shm_manager_acquire_read_buffer(manager, &size, &version)
S_CAcquireRead ==
  /\ Call
  /\ Returns(NoReturn)
  /\ CHeld < MaxGuards
  /\ LET sel == ReadSelect(buffer_ready, frame_version) IN
       IF sel.found_latest
         THEN CReadAcquired(sel)
         ELSE UNCHANGED <<buffer_reader_count, pc, read_guards, creads>>
  /\ UNCHANGED <<frame_version, buffer_data_size, buffer_ready, data,
                 wguards, rguards>>
  /\ UNCHANGED concvars

\* shm_manager_wait_for_data(manager, &size, &version): with no frame to
\* select the thread, alone, sleeps and retries for ever
S_CWaitForData ==
  /\ Call
  /\ Returns(NoReturn)
  /\ CHeld < MaxGuards
  /\ LET sel == ReadSelect(buffer_ready, frame_version) IN
       IF sel.found_latest
         THEN CReadAcquired(sel)
         ELSE /\ pc' = [pc EXCEPT !["s"] = "waiting"]
              /\ UNCHANGED <<buffer_reader_count, read_guards, creads>>
  /\ UNCHANGED <<frame_version, buffer_data_size, buffer_ready, data,
                 wguards, rguards>>
  /\ UNCHANGED concvars

\* shm_manager_release_read_buffer(manager, ptr) for a pointer to buffer i
\* that a C-interface acquisition returned
S_CReleaseRead(i) ==
  /\ Call
  /\ Returns(NoReturn)
  /\ creads[i] > 0
  /\ creads' = [creads EXCEPT ![i] = @ - 1]
  /\ IF read_guards[i].live
       THEN /\ read_guards' = [read_guards EXCEPT ![i] = NoGuard]
            /\ buffer_reader_count' =
                 [buffer_reader_count EXCEPT ![read_guards[i].buffer_idx_] = UDec(@)]
       ELSE UNCHANGED <<read_guards, buffer_reader_count>>
  /\ UNCHANGED <<frame_version, buffer_data_size, buffer_ready, data, pc,
                 wguards, rguards>>
  /\ UNCHANGED concvars

(* write_and_switch(x, n, v) for the payload x of n bytes b.  Taken whole, *)
(* with the thread alone, each of the 1000 further acquisitions ends as    *)
(* the first did: a failed acquisition stores nothing.                     *)
S_WriteAndSwitch(n, b, v) ==
  /\ Call
  /\ LET idx == WriteSelect(frame_version) IN
       IF n = 0
         THEN /\ Returns([call |-> "write_and_switch", status |-> "InvalidArguments"])
              /\ UNCHANGED <<frame_version, buffer_data_size, buffer_ready, data, pc>>
         ELSE IF ULess(BufSize, n) \/ UPositive(buffer_reader_count[idx])
           THEN /\ Returns([call |-> "write_and_switch", status |-> "AcquireFailed"])
                /\ UNCHANGED <<frame_version, buffer_data_size, buffer_ready, data, pc>>
           ELSE \/ /\ SeqBlocks
                   /\ Returns(NoReturn)
                   /\ buffer_ready' = [buffer_ready EXCEPT ![idx] = FALSE]
                   /\ UNCHANGED <<frame_version, buffer_data_size, data>>
                \/ /\ Returns([call |-> "write_and_switch", status |-> "Success"])
                   /\ data' = [data EXCEPT ![idx] = Copied(@, n, b)]
                   /\ InternalCommit(idx, n, v)
                   /\ UNCHANGED pc
  /\ UNCHANGED <<buffer_reader_count, wguards, rguards, read_guards, creads>>
  /\ UNCHANGED concvars

\* the first m bytes of buffer idx
Bytes(idx, m) == [k \in 1 .. m |-> data[idx][k]]

\* what try_read_latest(out, cap, &actual) returns on the region as it
\* stands: its status, *actual and the bytes it copied to out
TryReadLatest(cap) ==
  LET sel == ReadSelect(buffer_ready, frame_version)
      copy_size == Min(cap, buffer_data_size[sel.latest_idx])
  IN
  IF cap = 0
    THEN [call |-> "try_read_latest", status |-> "InvalidArguments"]
    ELSE IF ~ sel.found_latest
      THEN [call |-> "try_read_latest", status |-> "NoDataAvailable",
            actual_size |-> 0]
      ELSE [call |-> "try_read_latest", status |-> "Success",
            actual_size |-> copy_size, out |-> Bytes(sel.latest_idx, copy_size)]

\* try_read_latest(out, cap, &actual): its guard takes and gives back the
\* reader count of the buffer it selects
S_TryReadLatest(cap) ==
  /\ Call
  /\ LET sel == ReadSelect(buffer_ready, frame_version)
         idx == sel.latest_idx
     IN
       IF cap = 0 \/ ~ sel.found_latest
         THEN /\ Returns(TryReadLatest(cap))
              /\ UNCHANGED <<buffer_reader_count, pc>>
         ELSE \/ /\ SeqBlocks
                 /\ Returns(NoReturn)
                 /\ buffer_reader_count' =
                      [buffer_reader_count EXCEPT ![idx] = UInc(@)]
              \/ /\ Returns(TryReadLatest(cap))
                 /\ buffer_reader_count' =
                      [buffer_reader_count EXCEPT ![idx] = UDec(UInc(@))]
                 /\ UNCHANGED pc
  /\ UNCHANGED <<frame_version, buffer_data_size, buffer_ready, data,
                 wguards, rguards, read_guards, creads>>
  /\ UNCHANGED concvars

SeqNext ==
  \/ \E s \in WSlots, e \in 1 .. (BufSize + 1) : S_AcquireWrite(s, e)
  \/ \E s \in WSlots, n \in Cells, b \in 1 .. MaxByte : S_Copy(s, n, b)
  \/ \E s \in WSlots, a \in 0 .. (BufSize + 1), v \in 0 .. MaxSeqVersion :
       S_Commit(s, a, v)
  \/ \E s \in WSlots : S_DestroyWrite(s)
  \/ \E s \in RSlots : S_AcquireRead(s)
  \/ \E s \in RSlots : S_ReleaseRead(s)
  \/ S_CAcquireRead
  \/ S_CWaitForData
  \/ \E i \in Buffers : S_CReleaseRead(i)
  \/ \E n \in 0 .. (BufSize + 1), b \in 1 .. MaxByte, v \in 0 .. MaxSeqVersion :
       S_WriteAndSwitch(n, b, v)
  \/ \E cap \in 0 .. BufSize : S_TryReadLatest(cap)

SpecSeq == Init /\ [][SeqNext]_vars

\* ============================================================ properties

\* ------------------------------------------------------- Spec (processes)

\* C1: no state in which the writer holds an uncommitted reservation on a
\* buffer while a successful reader reservation on the same buffer is live.
C1_WriterReaderExclusion ==
  ~ (/\ pc["w"] = "w_hold"
     /\ pc["r"] = "r_hold"
     /\ wg.buffer_idx_ = rg.buffer_idx_)

\* C2: every byte a reader can read during a successful reservation (the
\* first size_ bytes of its buffer) was written by the commit whose version
\* the reservation reports.  The writer stamps each byte of a frame with the
\* version it commits the frame with.
C2_NoTornFrames ==
  pc["r"] = "r_hold" =>
    \A k \in Cells :
      k <= rg.size_ => data[rg.buffer_idx_][k] = rg.frame_version_

\* C3: an acquisition returns to its caller after a bounded number of its
\* own steps: no thread is ever left waiting on the lifecycle mutex.
C3_WaitFree == \A p \in {"w", "r"} : pc[p] # "blocked"

\* C5: the versions reported by the reader's successive successful
\* acquisitions never decrease (rprev is what the previous one reported).
C5_MonotoneLatest ==
  pc["r"] = "r_hold" => ~ ULess(rg.frame_version_, rprev)

\* ------------------------------------------------------ SpecSeq (one thread)

\* the payload of n bytes b
Payload(n, b) == [k \in 1 .. n |-> b]

\* C4: after write_and_switch(x, v) succeeds for a payload x, 0 < len(x) <= B,
\* and any version v, try_read_latest with capacity >= len(x) returns
\* Success, size len(x) and exactly the bytes x.
C4_RoundTrip ==
  [][\A n \in Cells, b \in 1 .. MaxByte, v \in 0 .. MaxSeqVersion :
       (S_WriteAndSwitch(n, b, v) /\ ret'.status = "Success") =>
         \A cap \in n .. BufSize :
           TryReadLatest(cap)' =
             [call |-> "try_read_latest", status |-> "Success",
              actual_size |-> n, out |-> Payload(n, b)]]_vars

\* a reader acquisition into slot s that returned its guard
ReadAcquisition(s) == ~ rguards[s].live /\ rguards'[s].live

\* buffer i is ready and no ready buffer has a larger version, nor the same
\* version at a lower index
NewestReady(i) ==
  /\ buffer_ready[i]
  /\ \A j \in Buffers :
       buffer_ready[j] =>
         /\ ~ ULess(frame_version[i], frame_version[j])
         /\ (j < i => frame_version[j] # frame_version[i])

\* C6: a reader acquisition succeeds whenever some buffer is ready, whatever
\* the committed versions (0 included), and then returns the ready buffer
\* with the maximum version, lowest index on ties; it returns NoDataAvailable
\* exactly when no buffer is ready.
C6_ReaderSelection ==
  [][\A s \in RSlots :
       ReadAcquisition(s) =>
         /\ rguards'[s].buffer_ <=> (\E i \in Buffers : buffer_ready[i])
         /\ rguards'[s].buffer_ => NewestReady(rguards'[s].buffer_idx_)
         /\ (rguards'[s].status_ = "NoDataAvailable") <=> ~ rguards'[s].buffer_
    ]_vars

\* a writer acquisition into slot s that returned its guard
WriteAcquisition(s) == ~ wguards[s].live /\ wguards'[s].live

\* buffer i has the minimum version over all buffers, lowest index on ties
OldestBuffer(i) ==
  \A j \in Buffers :
    /\ ~ ULess(frame_version[j], frame_version[i])
    /\ (j < i => frame_version[j] # frame_version[i])

\* guard slot r holds a successful reader reservation
Pinning(r) == rguards[r].live /\ rguards[r].buffer_

\* the reader of slot r pins the buffer holding the newest version, and the
\* oldest buffer is older and unpinned
PinsNewest(r) ==
  /\ Pinning(r)
  /\ \A j \in Buffers :
       ~ ULess(frame_version[rguards[r].buffer_idx_], frame_version[j])
  /\ \E j \in Buffers :
       /\ OldestBuffer(j)
       /\ ULess(frame_version[j], frame_version[rguards[r].buffer_idx_])
       /\ buffer_reader_count[j] = 0

\* guard slot s commits in this step
Commits(s) ==
  /\ wguards[s].live /\ wguards'[s].live
  /\ ~ wguards[s].committed_ /\ wguards'[s].committed_

\* the version, size and bytes of buffer i stay as they are
Untouched(i) ==
  /\ frame_version'[i] = frame_version[i]
  /\ buffer_data_size'[i] = buffer_data_size[i]
  /\ data'[i] = data[i]

\* C7: every successful writer acquisition is granted the buffer with the
\* minimum frame_version, lowest index on ties; when a reader pins the newest
\* buffer and the older buffer is unpinned the acquisition (expected_size
\* <= B) is granted the older buffer, not the pinned one; and a commit
\* through a guard leaves the version, size and bytes of every other buffer
\* a reader pins, and what the reader's guard reports of it, as they are.
C7_WriterSelection ==
  [][\A s \in WSlots :
       /\ (WriteAcquisition(s) /\ wguards'[s].buffer_)
            => OldestBuffer(wguards'[s].buffer_idx_)
       /\ \A r \in RSlots :
            (/\ WriteAcquisition(s)
             /\ ~ ULess(BufSize, wguards'[s].capacity_)
             /\ PinsNewest(r))
            => /\ wguards'[s].buffer_
               /\ wguards'[s].buffer_idx_ # rguards[r].buffer_idx_
               /\ ULess(frame_version[wguards'[s].buffer_idx_],
                        frame_version[rguards[r].buffer_idx_])
       /\ \A r \in RSlots :
            (/\ Commits(s)
             /\ Pinning(r)
             /\ rguards[r].buffer_idx_ # wguards[s].buffer_idx_)
            => /\ Untouched(rguards[r].buffer_idx_)
               /\ rguards'[r] = rguards[r]
    ]_vars

\* C7's case: a reader still pins the frame it acquired, unchanged, while a
\* guard granted another buffer has committed a newer frame there.
C7_Witness ==
  \E r \in RSlots, s \in WSlots :
    /\ Pinning(r)
    /\ wguards[s].live /\ wguards[s].buffer_ /\ wguards[s].committed_
    /\ wguards[s].buffer_idx_ # rguards[r].buffer_idx_
    /\ ULess(rguards[r].frame_version_, frame_version[wguards[s].buffer_idx_])
    /\ frame_version[rguards[r].buffer_idx_] = rguards[r].frame_version_
    /\ buffer_data_size[rguards[r].buffer_idx_] = rguards[r].size_
    /\ buffer_reader_count[rguards[r].buffer_idx_] = 1

\* the live reader reservations on buffer i: the valid C++ guards on it and
\* the pointers to it that the C interface has handed out
LiveReaders(i) ==
  Cardinality({r \in RSlots : Pinning(r) /\ rguards[r].buffer_idx_ = i})
    + creads[i]

\* C8: a writer acquisition (expected_size <= B) is refused exactly when the
\* minimum-version buffer has reader_count > 0; so once every reader of that
\* buffer has released, its reader_count is not > 0 and the next writer
\* acquisition is granted it.
C8_PinnedEvictionRefusal ==
  \A i \in Buffers :
    (pc["s"] = "idle" /\ OldestBuffer(i) /\ LiveReaders(i) = 0)
      => ~ UPositive(buffer_reader_count[i])

\* C9: at most one live uncommitted writer reservation exists on a buffer.
C9_OneWriterPerBuffer ==
  \A s, t \in WSlots :
    (/\ s # t
     /\ wguards[s].live /\ wguards[s].buffer_ /\ ~ wguards[s].committed_
     /\ wguards[t].live /\ wguards[t].buffer_ /\ ~ wguards[t].committed_)
    => wguards[s].buffer_idx_ # wguards[t].buffer_idx_

\* C10: between calls, reader_count[i] equals the number of live successful
\* reader reservations on buffer i, taken through the C++ guards or through
\* the C interface (so it never wraps below zero).
C10_ReaderCountAccounting ==
  pc["s"] = "idle" =>
    \A i \in Buffers : buffer_reader_count[i] = LiveReaders(i)

\* C11: a buffer whose pointer the C interface returned to a reader stays
\* pinned until that reader's release: no writer acquisition made in between
\* is granted it.
C11_CPinDuration ==
  [][\A s \in WSlots :
       (WriteAcquisition(s) /\ wguards'[s].buffer_)
         => creads[wguards'[s].buffer_idx_] = 0]_vars

\* no control cell of any buffer changes
ControlUnchanged ==
  UNCHANGED <<frame_version, buffer_data_size, buffer_ready,
              buffer_reader_count>>

\* C13: destroying a write guard that holds buffer i and was never committed
\* leaves ready[i] == false and changes no reader_count, data_size or
\* frame_version.
C13_WriterReleaseWithoutCommit ==
  [][\A s \in WSlots :
       (/\ wguards[s].live /\ wguards[s].buffer_ /\ ~ wguards[s].committed_
        /\ ~ wguards'[s].live)
       => /\ ~ buffer_ready'[wguards[s].buffer_idx_]
          /\ UNCHANGED <<frame_version, buffer_data_size, buffer_reader_count>>
    ]_vars

\* C14: in every reachable state a ready buffer has data_size <= B and
\* frame_version > 0.
C14_ReadyImpliesValid ==
  \A i \in Buffers :
    buffer_ready[i] =>
      /\ ~ ULess(BufSize, buffer_data_size[i])
      /\ UPositive(frame_version[i])

\* C15: commit(actual_size, version) on a live uncommitted reservation
\* returns BufferTooSmall exactly when actual_size > B; after BufferTooSmall
\* the reservation is still uncommitted and no cell has changed.
C15_CommitSizeValidation ==
  [][\A s \in WSlots, a \in 0 .. (BufSize + 1), v \in 0 .. MaxSeqVersion :
       (S_Commit(s, a, v) /\ wguards[s].buffer_ /\ ~ wguards[s].committed_)
       => /\ (ret'.status = "BufferTooSmall") <=> ULess(BufSize, a)
          /\ ret'.status = "BufferTooSmall"
               => (ControlUnchanged /\ UNCHANGED <<data, wguards>>)
    ]_vars

\* ------------------------------------------------------------- SpecLife
(* Two managers of one name.  A shared memory object that lost its name    *)
(* lives on while it is mapped; the threads create a new object under the  *)
(* name only when no manager still maps the former one, so the region      *)
(* variables always are the one object alive.  The threads use the region  *)
(* only through a manager they attached with buffer size BufSize.          *)

\* what the operating system does to the call's shm_open, ftruncate, mmap
\* or munmap
OsOutcomes == {"ok", "open_fails", "truncate_fails", "map_fails", "unmap_fails"}

\* the descriptor shm_open returns
OpenFd == 3

\* validate_buffer_layout's required_size, in size_t arithmetic
RequiredSize(buffer_size) ==
  (HeaderSize + NUM_BUFFERS * buffer_size) % SizeModulus

\* validate_buffer_layout(shm_total_size, buffer_size)
validate_buffer_layout(shm_total_size, buffer_size) ==
  IF shm_total_size < RequiredSize(buffer_size)
    THEN "BufferTooSmall"
    ELSE "Success"

\* state_ == Created || state_ == Mapped
Initialized(m) == mgr[m].state_ \in {"Created", "Mapped"}

\* manager m maps the object
Attached(m) == mgr[m].shm_ptr_ = "mapped"

\* the thread of manager m is free to make its next call
LifeCall(m) ==
  /\ pc[m] = "idle"
  /\ calls < LifeCalls
  /\ calls' = calls + 1

\* the thread of manager m blocks for ever in get_data_buffer's re-lock
LifeBlocks(m) == pc' = [pc EXCEPT ![m] = "blocked"]

\* the fields create_and_init and open_and_map store on success
MappedManager(m, st, creator, shm_total_size, buffer_size) ==
  [mgr[m] EXCEPT !.state_ = st, !.shm_fd_ = OpenFd, !.shm_ptr_ = "mapped",
                 !.is_creator_ = creator,
                 !.current_shm_size_ = shm_total_size,
                 !.buffer_size_ = buffer_size]

\* a new object after ftruncate (zero-filled) and ShmBufferControl::initialize
FreshRegion ==
  /\ frame_version' = [i \in Buffers |-> 0]
  /\ buffer_data_size' = [i \in Buffers |-> 0]
  /\ buffer_ready' = [i \in Buffers |-> FALSE]
  /\ buffer_reader_count' = [i \in Buffers |-> 0]
  /\ data' = [i \in Buffers |-> [k \in Cells |-> 0]]

\* m.create_and_init(shm_total_size, buffer_size)
L_CreateAndInit(m, shm_total_size, buffer_size, os) ==
  /\ LifeCall(m)
  /\ IF mgr[m].state_ # "Uninitialized"
       THEN /\ Returns([call |-> "create_and_init", status |-> "AlreadyInitialized"])
            /\ UNCHANGED <<mgr, shm, region>>
       ELSE IF validate_buffer_layout(shm_total_size, buffer_size) # "Success"
         THEN /\ Returns([call |-> "create_and_init", status |-> "BufferTooSmall"])
              /\ UNCHANGED <<mgr, shm, region>>
         ELSE IF shm.exists
           \* O_CREAT | O_EXCL fails with EEXIST: open the existing object
           THEN CASE os = "open_fails" ->
                       /\ Returns([call |-> "create_and_init",
                                   status |-> "ShmOpenFailed"])
                       /\ UNCHANGED <<mgr, shm, region>>
                  [] os = "map_fails" ->
                       /\ Returns([call |-> "create_and_init",
                                   status |-> "ShmMapFailed"])
                       /\ UNCHANGED <<mgr, shm, region>>
                  [] OTHER ->
                       /\ Returns([call |-> "create_and_init", status |-> "Success"])
                       /\ mgr' = [mgr EXCEPT ![m] =
                                    MappedManager(m, "Created", mgr[m].is_creator_,
                                                  shm_total_size, buffer_size)]
                       /\ UNCHANGED <<shm, region>>
           \* the call creates the object
           ELSE /\ \A k \in Managers : ~ Attached(k)
                /\ CASE os = "open_fails" ->
                          /\ Returns([call |-> "create_and_init",
                                      status |-> "ShmOpenFailed"])
                          /\ UNCHANGED <<mgr, shm, region>>
                     [] os = "truncate_fails" ->
                          /\ Returns([call |-> "create_and_init",
                                      status |-> "ShmTruncateFailed"])
                          /\ mgr' = [mgr EXCEPT ![m].is_creator_ = TRUE]
                          /\ UNCHANGED <<shm, region>>
                     [] os = "map_fails" ->
                          /\ Returns([call |-> "create_and_init",
                                      status |-> "ShmMapFailed"])
                          /\ mgr' = [mgr EXCEPT ![m].is_creator_ = TRUE]
                          /\ UNCHANGED <<shm, region>>
                     [] OTHER ->
                          /\ Returns([call |-> "create_and_init",
                                      status |-> "Success"])
                          /\ mgr' = [mgr EXCEPT ![m] =
                                       MappedManager(m, "Created", TRUE,
                                                     shm_total_size, buffer_size)]
                          /\ shm' = [exists |-> TRUE, size |-> shm_total_size]
                          /\ FreshRegion
  /\ UNCHANGED <<pc, lw, lr>>
  /\ UNCHANGED quietvars

\* m.open_and_map(shm_total_size, buffer_size)
L_OpenAndMap(m, shm_total_size, buffer_size, os) ==
  /\ LifeCall(m)
  /\ IF mgr[m].state_ # "Uninitialized"
       THEN /\ Returns([call |-> "open_and_map", status |-> "AlreadyInitialized"])
            /\ UNCHANGED mgr
       ELSE IF validate_buffer_layout(shm_total_size, buffer_size) # "Success"
         THEN /\ Returns([call |-> "open_and_map", status |-> "BufferTooSmall"])
              /\ UNCHANGED mgr
         ELSE IF ~ shm.exists \/ os = "open_fails"
           THEN /\ Returns([call |-> "open_and_map", status |-> "ShmOpenFailed"])
                /\ UNCHANGED mgr
           ELSE IF os = "map_fails"
             THEN /\ Returns([call |-> "open_and_map", status |-> "ShmMapFailed"])
                  /\ UNCHANGED mgr
             ELSE /\ Returns([call |-> "open_and_map", status |-> "Success"])
                  /\ mgr' = [mgr EXCEPT ![m] =
                               MappedManager(m, "Mapped", FALSE,
                                             shm_total_size, buffer_size)]
  /\ UNCHANGED <<shm, region, pc, lw, lr>>
  /\ UNCHANGED quietvars

\* unmap_and_close as it would be if it returned at once only when Closed
CloseReturnsEarlyWhenClosed(st) == st = "Closed"

\* unmap_and_close returns at once, with Success, in these states
CloseReturnsEarly(st) == st \in {"Uninitialized", "Closed"}

\* m.unmap_and_close(), also run by ~ShmManager
L_UnmapAndClose(m, os) ==
  /\ LifeCall(m)
  /\ IF CloseReturnsEarly(mgr[m].state_)
       THEN /\ Returns([call |-> "unmap_and_close", status |-> "Success"])
            /\ UNCHANGED mgr
       ELSE /\ Returns([call |-> "unmap_and_close",
                        status |-> IF Attached(m) /\ os = "unmap_fails"
                                     THEN "ShmUnmapFailed" ELSE "Success"])
            /\ mgr' = [mgr EXCEPT ![m] =
                         IF Attached(m)
                           THEN [@ EXCEPT !.shm_ptr_ = "nullptr",
                                          !.current_shm_size_ = 0,
                                          !.buffer_size_ = 0,
                                          !.shm_fd_ = -1,
                                          !.state_ = "Closed"]
                           ELSE [@ EXCEPT !.shm_fd_ = -1, !.state_ = "Closed"]]
  /\ UNCHANGED <<shm, region, pc, lw, lr>>
  /\ UNCHANGED quietvars

\* unlink_shm as it would be if only the creator removed the name
L_UnlinkShmCreatorOnly(m) ==
  /\ LifeCall(m)
  /\ IF shm.exists /\ mgr[m].is_creator_
       THEN /\ Returns([call |-> "unlink_shm", status |-> "Success"])
            /\ shm' = [shm EXCEPT !.exists = FALSE]
       ELSE /\ Returns([call |-> "unlink_shm", status |-> "ShmUnlinkFailed"])
            /\ UNCHANGED shm
  /\ UNCHANGED <<mgr, region, pc, lw, lr>>
  /\ UNCHANGED quietvars

\* m.unlink_shm(): shm_unlink(shm_name_), whatever the manager's state
L_UnlinkShm(m) ==
  /\ LifeCall(m)
  /\ IF shm.exists
       THEN /\ Returns([call |-> "unlink_shm", status |-> "Success"])
            /\ shm' = [shm EXCEPT !.exists = FALSE]
       ELSE /\ Returns([call |-> "unlink_shm", status |-> "ShmUnlinkFailed"])
            /\ UNCHANGED shm
  /\ UNCHANGED <<mgr, region, pc, lw, lr>>
  /\ UNCHANGED quietvars

\* the thread uses the region through m only if m has buffer size BufSize
Usable(m) == Initialized(m) => mgr[m].buffer_size_ = BufSize

\* WriteBufferGuard g = m.acquire_write_buffer(e)
L_AcquireWrite(m, e) ==
  /\ LifeCall(m)
  /\ Usable(m)
  /\ Returns(NoReturn)
  /\ ~ lw[m].live
  /\ LET idx == WriteSelect(frame_version) IN
       IF \/ ~ Initialized(m)
          \/ ULess(mgr[m].buffer_size_, e)
          \/ UPositive(buffer_reader_count[idx])
         THEN /\ lw' = [lw EXCEPT ![m] = WriteGuard(FALSE, e, 0)]
              /\ UNCHANGED <<buffer_ready, pc>>
         ELSE /\ buffer_ready' = [buffer_ready EXCEPT ![idx] = FALSE]
              /\ \/ LifeBlocks(m) /\ UNCHANGED lw
                 \/ /\ lw' = [lw EXCEPT ![m] = WriteGuard(TRUE, e, idx)]
                    /\ UNCHANGED pc
  /\ UNCHANGED <<frame_version, buffer_data_size, buffer_reader_count, data,
                 mgr, shm, lr>>
  /\ UNCHANGED quietvars

\* g.commit(a, v) on the guard of m's thread: committed_ is set before
\* internal_commit_write_buffer tests the manager's state
L_Commit(m, a, v) ==
  /\ LifeCall(m)
  /\ lw[m].live
  /\ IF ~ lw[m].buffer_ \/ lw[m].committed_
       THEN /\ Returns([call |-> "commit", status |-> "InvalidArguments"])
            /\ UNCHANGED <<frame_version, buffer_data_size, buffer_ready, lw>>
       ELSE IF ULess(lw[m].capacity_, a)
         THEN /\ Returns([call |-> "commit", status |-> "BufferTooSmall"])
              /\ UNCHANGED <<frame_version, buffer_data_size, buffer_ready, lw>>
         ELSE /\ lw' = [lw EXCEPT ![m].committed_ = TRUE]
              /\ IF Initialized(m)
                   THEN /\ Returns([call |-> "commit", status |-> "Success"])
                        /\ InternalCommit(lw[m].buffer_idx_, a, v)
                   ELSE /\ Returns([call |-> "commit", status |-> "NotInitialized"])
                        /\ UNCHANGED <<frame_version, buffer_data_size,
                                       buffer_ready>>
  /\ UNCHANGED <<buffer_reader_count, data, pc, mgr, shm, lr>>
  /\ UNCHANGED quietvars

\* the write guard of m's thread goes out of scope
L_DestroyWrite(m) ==
  /\ LifeCall(m)
  /\ Returns(NoReturn)
  /\ lw[m].live
  /\ lw' = [lw EXCEPT ![m] = NoGuard]
  /\ UNCHANGED <<region, pc, mgr, shm, lr>>
  /\ UNCHANGED quietvars

\* ReadBufferGuard g = m.acquire_read_buffer()
L_AcquireRead(m) ==
  /\ LifeCall(m)
  /\ Usable(m)
  /\ Returns(NoReturn)
  /\ ~ lr[m].live
  /\ LET sel == ReadSelect(buffer_ready, frame_version) IN
       IF ~ Initialized(m)
         THEN /\ lr' = [lr EXCEPT ![m] = ReadGuard(FALSE, 0, 0, 0, "NotInitialized")]
              /\ UNCHANGED <<buffer_reader_count, pc>>
         ELSE IF ~ sel.found_latest
           THEN /\ lr' = [lr EXCEPT ![m] =
                            ReadGuard(FALSE, 0, 0, 0, "NoDataAvailable")]
                /\ UNCHANGED <<buffer_reader_count, pc>>
           ELSE /\ buffer_reader_count' =
                     [buffer_reader_count EXCEPT ![sel.latest_idx] = UInc(@)]
                /\ \/ LifeBlocks(m) /\ UNCHANGED lr
                   \/ /\ lr' = [lr EXCEPT ![m] = AcquiredRead(sel)]
                      /\ UNCHANGED pc
  /\ UNCHANGED <<frame_version, buffer_data_size, buffer_ready, data,
                 mgr, shm, lw>>
  /\ UNCHANGED quietvars

\* the read guard of m's thread goes out of scope: ~ReadBufferGuard calls
\* internal_release_read_buffer, which returns before its fetch_sub unless
\* the manager is Created or Mapped
L_ReleaseRead(m) ==
  /\ LifeCall(m)
  /\ Returns(NoReturn)
  /\ lr[m].live
  /\ buffer_reader_count' =
       IF lr[m].buffer_ /\ Initialized(m)
         THEN [buffer_reader_count EXCEPT ![lr[m].buffer_idx_] = UDec(@)]
         ELSE buffer_reader_count
  /\ lr' = [lr EXCEPT ![m] = NoGuard]
  /\ UNCHANGED <<frame_version, buffer_data_size, buffer_ready, data, pc,
                 mgr, shm, lw>>
  /\ UNCHANGED quietvars

\* m.write_and_switch(x, n, v) for the payload x of n bytes b
L_WriteAndSwitch(m, n, b, v) ==
  /\ LifeCall(m)
  /\ Usable(m)
  /\ LET idx == WriteSelect(frame_version) IN
       IF n = 0
         THEN /\ Returns([call |-> "write_and_switch", status |-> "InvalidArguments"])
              /\ UNCHANGED <<frame_version, buffer_data_size, buffer_ready, data, pc>>
         ELSE IF \/ ~ Initialized(m)
                 \/ ULess(mgr[m].buffer_size_, n)
                 \/ UPositive(buffer_reader_count[idx])
           THEN /\ Returns([call |-> "write_and_switch", status |-> "AcquireFailed"])
                /\ UNCHANGED <<frame_version, buffer_data_size, buffer_ready, data, pc>>
           ELSE \/ /\ LifeBlocks(m)
                   /\ Returns(NoReturn)
                   /\ buffer_ready' = [buffer_ready EXCEPT ![idx] = FALSE]
                   /\ UNCHANGED <<frame_version, buffer_data_size, data>>
                \/ /\ Returns([call |-> "write_and_switch", status |-> "Success"])
                   /\ data' = [data EXCEPT ![idx] = Copied(@, n, b)]
                   /\ InternalCommit(idx, n, v)
                   /\ UNCHANGED pc
  /\ UNCHANGED <<buffer_reader_count, mgr, shm, lw, lr>>
  /\ UNCHANGED quietvars

\* m.try_read_latest(out, cap, &actual)
L_TryReadLatest(m, cap) ==
  /\ LifeCall(m)
  /\ Usable(m)
  /\ LET sel == ReadSelect(buffer_ready, frame_version)
         idx == sel.latest_idx
     IN
       IF cap # 0 /\ ~ Initialized(m)
         THEN /\ Returns([call |-> "try_read_latest", status |-> "NotInitialized",
                          actual_size |-> 0])
              /\ UNCHANGED <<buffer_reader_count, pc>>
         ELSE IF cap = 0 \/ ~ sel.found_latest
           THEN /\ Returns(TryReadLatest(cap))
                /\ UNCHANGED <<buffer_reader_count, pc>>
           ELSE \/ /\ LifeBlocks(m)
                   /\ Returns(NoReturn)
                   /\ buffer_reader_count' =
                        [buffer_reader_count EXCEPT ![idx] = UInc(@)]
                \/ /\ Returns(TryReadLatest(cap))
                   /\ buffer_reader_count' =
                        [buffer_reader_count EXCEPT ![idx] = UDec(UInc(@))]
                   /\ UNCHANGED pc
  /\ UNCHANGED <<frame_version, buffer_data_size, buffer_ready, data,
                 mgr, shm, lw, lr>>
  /\ UNCHANGED quietvars

\* one turn of wait_and_read's loop for the thread of m: the acquisition,
\* then the copy and the return, or the sleep when the guard is not valid
WaitAttempt(m, cap) ==
  LET sel == ReadSelect(buffer_ready, frame_version)
      idx == sel.latest_idx
      copy_size == Min(cap, buffer_data_size[idx])
  IN
  IF ~ Initialized(m) \/ ~ sel.found_latest
    THEN /\ pc' = [pc EXCEPT ![m] = "waiting"]
         /\ Returns(NoReturn)
         /\ UNCHANGED buffer_reader_count
    ELSE \/ /\ LifeBlocks(m)
            /\ Returns(NoReturn)
            /\ buffer_reader_count' =
                 [buffer_reader_count EXCEPT ![idx] = UInc(@)]
         \/ /\ pc' = [pc EXCEPT ![m] = "idle"]
            /\ Returns([call |-> "wait_and_read", status |-> "Success",
                        actual_size |-> copy_size,
                        out |-> Bytes(idx, copy_size)])
            /\ buffer_reader_count' =
                 [buffer_reader_count EXCEPT ![idx] = UDec(UInc(@))]

\* m.wait_and_read(out, cap, &actual): the call and the first turn of its
\* loop
L_WaitAndRead(m, cap) ==
  /\ LifeCall(m)
  /\ Usable(m)
  /\ WaitAttempt(m, cap)
  /\ UNCHANGED <<frame_version, buffer_data_size, buffer_ready, data,
                 mgr, shm, lw, lr>>
  /\ UNCHANGED quietvars

\* a later turn of the loop of m.wait_and_read(out, cap, &actual), after the
\* sleep
L_WaitRetry(m, cap) ==
  /\ pc[m] = "waiting"
  /\ WaitAttempt(m, cap)
  /\ UNCHANGED <<frame_version, buffer_data_size, buffer_ready, data,
                 mgr, shm, lw, lr, calls>>
  /\ UNCHANGED quietvars

\* the total sizes the threads pass: one byte short of the layout of
\* BufSize-byte buffers, and that layout
TotalSizes == {HeaderSize + NUM_BUFFERS * BufSize - 1,
               HeaderSize + NUM_BUFFERS * BufSize}

\* the buffer sizes the threads pass: 0, BufSize, and a size whose layout
\* exceeds SIZE_MAX
BufferSizes == {0, BufSize, (SizeModulus - HeaderSize) \div NUM_BUFFERS + 1}

LifeNext ==
  \/ \E m \in Managers, T \in TotalSizes, B \in BufferSizes, os \in OsOutcomes :
       L_CreateAndInit(m, T, B, os)
  \/ \E m \in Managers, T \in TotalSizes, B \in BufferSizes, os \in OsOutcomes :
       L_OpenAndMap(m, T, B, os)
  \/ \E m \in Managers, os \in OsOutcomes : L_UnmapAndClose(m, os)
  \/ \E m \in Managers : L_UnlinkShm(m)
  \/ \E m \in Managers : L_AcquireWrite(m, 1)
  \/ \E m \in Managers, v \in 0 .. MaxSeqVersion : L_Commit(m, 1, v)
  \/ \E m \in Managers : L_DestroyWrite(m)
  \/ \E m \in Managers : L_AcquireRead(m)
  \/ \E m \in Managers : L_ReleaseRead(m)
  \/ \E m \in Managers, b \in 1 .. MaxByte, v \in 0 .. MaxSeqVersion :
       L_WriteAndSwitch(m, 1, b, v)
  \/ \E m \in Managers : L_TryReadLatest(m, BufSize)
  \/ \E m \in Managers : L_WaitAndRead(m, BufSize)
  \/ \E m \in Managers : L_WaitRetry(m, BufSize)

SpecLife == Init /\ [][LifeNext]_vars

\* ------------------------------------------------- properties of SpecLife

\* C12: destroying a ReadBufferGuard whose acquisition succeeded decrements
\* the reader count of its buffer by exactly one and changes no other cell,
\* also when unmap_and_close was called on the guard's manager between the
\* acquisition and the destruction; destroying a guard whose acquisition
\* failed changes no cell.
C12_ReaderGuardRelease ==
  [][\A m \in Managers :
       (lr[m].live /\ ~ lr'[m].live) =>
         /\ UNCHANGED <<frame_version, buffer_data_size, buffer_ready, data>>
         /\ buffer_reader_count' =
              IF lr[m].buffer_
                THEN [buffer_reader_count EXCEPT ![lr[m].buffer_idx_] = @ - 1]
                ELSE buffer_reader_count]_vars

\* C16: a write reservation never leaves a terminal state: commit on a guard
\* that is already committed, or whose acquisition failed, returns
\* InvalidArguments and changes no control cell and not the guard; a
\* committed guard stays committed while it lives, and destroying it changes
\* nothing in the region; a guard becomes committed only by a commit that
\* published the frame, that is, one after which the ready flag of its buffer
\* is set.
C16_ReservationStateMachine ==
  [][\A m \in Managers :
       /\ \A v \in 0 .. MaxSeqVersion :
            (L_Commit(m, 1, v) /\ (lw[m].committed_ \/ ~ lw[m].buffer_)) =>
              /\ ret'.status = "InvalidArguments"
              /\ ControlUnchanged
              /\ UNCHANGED lw
       /\ (lw[m].live /\ lw[m].committed_ /\ lw'[m].live) => lw'[m].committed_
       /\ (lw[m].live /\ lw[m].committed_ /\ ~ lw'[m].live) => UNCHANGED region
       /\ (lw[m].live /\ ~ lw[m].committed_ /\ lw'[m].live /\ lw'[m].committed_) =>
            buffer_ready'[lw[m].buffer_idx_]]_vars

\* C17: unmap_and_close on a manager that is Closed or Uninitialized returns
\* Success and changes no field of any manager and nothing in the region;
\* every unmap_and_close leaves its manager Closed or Uninitialized, so that
\* repeating it changes nothing more; and no unmap_and_close unlinks the
\* name.
C17_IdempotentClose ==
  [][\A m \in Managers, os \in OsOutcomes :
       L_UnmapAndClose(m, os) =>
         /\ shm' = shm
         /\ mgr'[m].state_ \in {"Uninitialized", "Closed"}
         /\ mgr[m].state_ \in {"Uninitialized", "Closed"} =>
              /\ ret'.status = "Success"
              /\ mgr' = mgr
              /\ UNCHANGED region]_vars

\* C17: three calls were made, the last an unmap_and_close that returned
\* Success; manager a created the object and is Closed, manager b is as
\* constructed
C17_Witness ==
  /\ calls = 3
  /\ ret = [call |-> "unmap_and_close", status |-> "Success"]
  /\ mgr["a"].state_ = "Closed"
  /\ mgr["a"].is_creator_
  /\ mgr["b"] = NewManager
  /\ shm.exists

\* a call of create_and_init or open_and_map by manager m with total size T
\* and buffer size B, under the outcome os of its system calls
LayoutCall(m, T, B, os) ==
  L_CreateAndInit(m, T, B, os) \/ L_OpenAndMap(m, T, B, os)

\* the system calls of the call succeed: the outcome is "ok", and the name
\* exists when open_and_map opens it
OsSucceeds(m, T, B, os) ==
  /\ os = "ok"
  /\ L_OpenAndMap(m, T, B, os) => shm.exists

\* C18: on an Uninitialized manager, create_and_init(T, B) and
\* open_and_map(T, B) return BufferTooSmall whenever
\* T < header_size + N * B, and then create, open and map nothing and leave
\* the manager as it was; otherwise they return Success when the system
\* calls succeed.
C18_LayoutValidation ==
  [][\A m \in Managers, T \in TotalSizes, B \in BufferSizes, os \in OsOutcomes :
       (LayoutCall(m, T, B, os) /\ mgr[m].state_ = "Uninitialized") =>
         IF T < HeaderSize + NUM_BUFFERS * B
           THEN /\ ret'.status = "BufferTooSmall"
                /\ mgr' = mgr
                /\ shm' = shm
                /\ UNCHANGED region
           ELSE OsSucceeds(m, T, B, os) => ret'.status = "Success"]_vars

\* C19: on an Uninitialized manager, create_and_init and open_and_map with
\* buffer size 0 return InvalidArguments and leave the manager
\* Uninitialized, for every total size.
C19_ZeroSizeRejection ==
  [][\A m \in Managers, T \in TotalSizes, os \in OsOutcomes :
       (LayoutCall(m, T, 0, os) /\ mgr[m].state_ = "Uninitialized") =>
         /\ ret'.status = "InvalidArguments"
         /\ mgr'[m].state_ = "Uninitialized"]_vars

\* manager m attaches to the object that has the name
Attach(m, T, B, os) ==
  \/ L_OpenAndMap(m, T, B, os)
  \/ L_CreateAndInit(m, T, B, os) /\ shm.exists

\* C20: attaching to an existing region, through open_and_map or through
\* create_and_init when the name exists, changes no frame_version, data
\* size, ready flag, reader count or byte of the region; and a read through
\* a manager that attached (it did not create the object) with the buffer
\* size of the other managers in use, and whose call returns, when one
\* committed frame is in the region, returns Success with that frame's size
\* and bytes.
C20_AttachKeepsRegion ==
  [][/\ \A m \in Managers, T \in TotalSizes, B \in BufferSizes, os \in OsOutcomes :
          Attach(m, T, B, os) => UNCHANGED region
     /\ \A m \in Managers, i \in Buffers :
          ( /\ L_TryReadLatest(m, BufSize)
            /\ Initialized(m)
            /\ ~ mgr[m].is_creator_
            /\ \A k \in Managers :
                 Initialized(k) => mgr[k].buffer_size_ = mgr[m].buffer_size_
            /\ pc' = pc
            /\ \A j \in Buffers : buffer_ready[j] <=> j = i ) =>
              ret' = [call |-> "try_read_latest", status |-> "Success",
                      actual_size |-> buffer_data_size[i],
                      out |-> Bytes(i, buffer_data_size[i])]]_vars

\* the statuses of a create_and_init or open_and_map that failed at one of
\* its system calls
LifecycleFailures == {"ShmOpenFailed", "ShmTruncateFailed", "ShmMapFailed"}

\* C21: a create_and_init or open_and_map that fails at its open, truncate
\* or map step leaves the manager Uninitialized, with no open descriptor, no
\* mapping and no creator role, and a name that existed before the call
\* still exists after it (and one that did not exist does not).
C21_RollbackOnFailure ==
  [][\A m \in Managers, T \in TotalSizes, B \in BufferSizes, os \in OsOutcomes :
       (LayoutCall(m, T, B, os) /\ ret'.status \in LifecycleFailures) =>
         /\ mgr'[m].state_ = "Uninitialized"
         /\ mgr'[m].shm_fd_ = -1
         /\ mgr'[m].shm_ptr_ = "nullptr"
         /\ ~ mgr'[m].is_creator_
         /\ shm'.exists = shm.exists]_vars

lm == "a"

\* what the threads of SpecLock leave alone
lockquiet == <<wg, wkept, rg, wver, rprev, rhidden,
               wguards, rguards, read_guards, creads, lw, lr, hdr>>

\* thread t starts a call that takes state_mutex_: std::lock_guard
LockCall(t) ==
  /\ pc[t] = "idle"
  /\ calls < LockCalls
  /\ ~ state_mutex[lm]
  /\ calls' = calls + 1

\* thread t goes on inside its call, to position p
Inside(t, p) ==
  /\ state_mutex' = [state_mutex EXCEPT ![lm] = TRUE]
  /\ pc' = [pc EXCEPT ![t] = p]

\* the call of thread t returns status st and the lock_guard goes out of
\* scope
Leave(t, call, st) ==
  /\ Returns([call |-> call, status |-> st])
  /\ state_mutex' = [state_mutex EXCEPT ![lm] = FALSE]
  /\ pc' = [pc EXCEPT ![t] = "idle"]

\* create_and_init: the lock and the checks before shm_open
K_CreateBegin(t) ==
  /\ LockCall(t)
  /\ IF mgr[lm].state_ # "Uninitialized"
       THEN Leave(t, "create_and_init", "AlreadyInitialized")
       ELSE Inside(t, "create_open") /\ UNCHANGED ret
  /\ UNCHANGED <<mgr, shm, region>>
  /\ UNCHANGED lockquiet

\* shm_open(O_CREAT | O_EXCL | O_RDWR): EEXIST when the name exists
K_CreateOpen(t) ==
  /\ pc[t] = "create_open"
  /\ IF shm.exists
       THEN /\ pc' = [pc EXCEPT ![t] = "create_reopen"]
            /\ UNCHANGED <<mgr, shm>>
       ELSE /\ pc' = [pc EXCEPT ![t] = "create_truncate"]
            /\ shm' = [exists |-> TRUE, size |-> 0]
            /\ mgr' = [mgr EXCEPT ![lm].shm_fd_ = OpenFd,
                                  ![lm].is_creator_ = TRUE]
  /\ UNCHANGED <<region, state_mutex, calls, ret>>
  /\ UNCHANGED lockquiet

\* after EEXIST: shm_open(O_RDWR)
K_CreateReopen(t) ==
  /\ pc[t] = "create_reopen"
  /\ IF shm.exists
       THEN /\ pc' = [pc EXCEPT ![t] = "create_map"]
            /\ mgr' = [mgr EXCEPT ![lm].shm_fd_ = OpenFd]
            /\ UNCHANGED <<state_mutex, ret>>
       ELSE /\ Leave(t, "create_and_init", "ShmOpenFailed")
            /\ UNCHANGED mgr
  /\ UNCHANGED <<shm, region, calls>>
  /\ UNCHANGED lockquiet

\* ftruncate(shm_fd_, shm_total_size) on the object the call created
K_CreateTruncate(t) ==
  /\ pc[t] = "create_truncate"
  /\ pc' = [pc EXCEPT ![t] = "create_map_new"]
  /\ shm' = [shm EXCEPT !.size = HeaderSize + NUM_BUFFERS * BufSize]
  /\ UNCHANGED <<mgr, region, state_mutex, calls, ret>>
  /\ UNCHANGED lockquiet

\* mmap, the stores of the sizes, initialize() on a new object, state_ =
\* Created and the return
K_CreateMap(t) ==
  /\ pc[t] \in {"create_map", "create_map_new"}
  /\ mgr' = [mgr EXCEPT ![lm] =
               MappedManager(lm, "Created", mgr[lm].is_creator_,
                             HeaderSize + NUM_BUFFERS * BufSize, BufSize)]
  /\ IF pc[t] = "create_map_new" THEN FreshRegion ELSE UNCHANGED region
  /\ Leave(t, "create_and_init", "Success")
  /\ UNCHANGED <<shm, calls>>
  /\ UNCHANGED lockquiet

\* open_and_map: the lock and the checks before shm_open
K_OpenBegin(t) ==
  /\ LockCall(t)
  /\ IF mgr[lm].state_ # "Uninitialized"
       THEN Leave(t, "open_and_map", "AlreadyInitialized")
       ELSE Inside(t, "open_open") /\ UNCHANGED ret
  /\ UNCHANGED <<mgr, shm, region>>
  /\ UNCHANGED lockquiet

\* shm_open(O_RDWR)
K_OpenOpen(t) ==
  /\ pc[t] = "open_open"
  /\ IF shm.exists
       THEN /\ pc' = [pc EXCEPT ![t] = "open_map"]
            /\ mgr' = [mgr EXCEPT ![lm].shm_fd_ = OpenFd]
            /\ UNCHANGED <<state_mutex, ret>>
       ELSE /\ Leave(t, "open_and_map", "ShmOpenFailed")
            /\ UNCHANGED mgr
  /\ UNCHANGED <<shm, region, calls>>
  /\ UNCHANGED lockquiet

\* mmap, the stores of the sizes, state_ = Mapped and the return
K_OpenMap(t) ==
  /\ pc[t] = "open_map"
  /\ mgr' = [mgr EXCEPT ![lm] =
               MappedManager(lm, "Mapped", FALSE,
                             HeaderSize + NUM_BUFFERS * BufSize, BufSize)]
  /\ Leave(t, "open_and_map", "Success")
  /\ UNCHANGED <<shm, region, calls>>
  /\ UNCHANGED lockquiet

\* unmap_and_close: the lock and the test of state_
K_CloseBegin(t) ==
  /\ LockCall(t)
  /\ IF CloseReturnsEarly(mgr[lm].state_)
       THEN Leave(t, "unmap_and_close", "Success")
       ELSE Inside(t, "close_unmap") /\ UNCHANGED ret
  /\ UNCHANGED <<mgr, shm, region>>
  /\ UNCHANGED lockquiet

\* munmap, close_internal_handles, state_ = Closed and the return
K_CloseUnmap(t) ==
  /\ pc[t] = "close_unmap"
  /\ mgr' = [mgr EXCEPT ![lm] =
               [@ EXCEPT !.shm_ptr_ = "nullptr", !.current_shm_size_ = 0,
                         !.buffer_size_ = 0, !.shm_fd_ = -1,
                         !.state_ = "Closed"]]
  /\ Leave(t, "unmap_and_close", "Success")
  /\ UNCHANGED <<shm, region, calls>>
  /\ UNCHANGED lockquiet

\* unlink_shm: shm_unlink(shm_name_), without state_mutex_
K_Unlink(t) ==
  /\ pc[t] = "idle"
  /\ calls < LockCalls
  /\ calls' = calls + 1
  /\ IF shm.exists
       THEN /\ Returns([call |-> "unlink_shm", status |-> "Success"])
            /\ shm' = [shm EXCEPT !.exists = FALSE]
       ELSE /\ Returns([call |-> "unlink_shm", status |-> "ShmUnlinkFailed"])
            /\ UNCHANGED shm
  /\ UNCHANGED <<mgr, region, state_mutex, pc>>
  /\ UNCHANGED lockquiet

\* the create_and_init of a manager in another process creates the object
\* under the name and initializes its control block, before lm has opened
\* anything
K_PeerCreate ==
  /\ ~ shm.exists
  /\ mgr[lm].state_ = "Uninitialized"
  /\ mgr[lm].shm_fd_ = -1
  /\ shm' = [exists |-> TRUE, size |-> HeaderSize + NUM_BUFFERS * BufSize]
  /\ FreshRegion
  /\ UNCHANGED <<mgr, state_mutex, pc, calls, ret>>
  /\ UNCHANGED lockquiet

LockNext ==
  \/ \E t \in Threads : K_CreateBegin(t)
  \/ \E t \in Threads : K_CreateOpen(t)
  \/ \E t \in Threads : K_CreateReopen(t)
  \/ \E t \in Threads : K_CreateTruncate(t)
  \/ \E t \in Threads : K_CreateMap(t)
  \/ \E t \in Threads : K_OpenBegin(t)
  \/ \E t \in Threads : K_OpenOpen(t)
  \/ \E t \in Threads : K_OpenMap(t)
  \/ \E t \in Threads : K_CloseBegin(t)
  \/ \E t \in Threads : K_CloseUnmap(t)
  \/ \E t \in Threads : K_Unlink(t)
  \/ K_PeerCreate

SpecLock == Init /\ [][LockNext]_vars

\* C36: create_and_init, open_and_map, unmap_and_close and unlink_shm on one
\* manager are mutually exclusive: two threads are never both inside a
\* lifecycle call, and no step of unlink_shm (its shm_unlink) executes while
\* another thread is between the first and the last step of a lifecycle
\* call.
C36_LifecycleMutualExclusion ==
  /\ [](\A t, u \in Threads :
          t # u => (pc[t] = "idle" \/ pc[u] = "idle"))
  /\ [][\A t \in Threads :
          K_Unlink(t) => \A u \in Threads \ {t} : pc[u] = "idle"]_vars

\* ------------------------------------------------------------ SpecImage
(* One ImageShmManager, img, and its thread.  A buffer of the region is    *)
(* HEADER_SIZE bytes, which hdr holds as the ImageHeader they are, followed *)
(* by BufSize payload bytes, which data holds.  The clock reading that     *)
(* write_image also lists in its initializer of the header is read by no   *)
(* operation and has no field here.                                        *)

\* the manager of SpecImage
img == "a"

\* the buffer size of the framed region
ImageBufferSize == HEADER_SIZE + BufSize

\* the total size of the framed region
ImageTotalSize == HeaderSize + NUM_BUFFERS * ImageBufferSize

\* the enumerators of ImageFormat the thread passes
ImageFormats == {"YUYV", "BGR"}

\* the thread is free to make its next call
ImageCall ==
  /\ pc[img] = "idle"
  /\ calls < ImgCalls
  /\ calls' = calls + 1

\* get_buffer_size(): the load of buffer_size_, which holds any value before
\* the first create_and_init or open_and_map stored one
GetBufferSize ==
  IF mgr[img].state_ = "Uninitialized"
    THEN {0, ImageBufferSize}
    ELSE {mgr[img].buffer_size_}

\* the input checks of write_image
WriteImageRejects(n, width, height, channels, format) ==
  n = 0 \/ width = 0 \/ height = 0 \/ (format = "YUYV" /\ channels # 2)

\* the ImageHeader write_image prepares
PreparedHeader(n, width, height, channels, format, frame_type) ==
  [format |-> format, width |-> width, height |-> height,
   channels |-> channels, data_size |-> n % DataSizeModulus,
   frame_type |-> frame_type]

\* img.write_image(x, n, width, height, channels, v, format, frame_type) for
\* the payload x of n bytes b
I_WriteImage(n, b, width, height, channels, v, format, frame_type) ==
  /\ ImageCall
  /\ LET total_size == HEADER_SIZE + n
         idx == WriteSelect(frame_version)
     IN
       IF WriteImageRejects(n, width, height, channels, format)
         THEN /\ Returns([call |-> "write_image", status |-> "InvalidArguments"])
              /\ UNCHANGED <<frame_version, buffer_data_size, buffer_ready,
                             data, hdr, pc>>
         ELSE \E buffer_size \in GetBufferSize :
           IF ULess(buffer_size, total_size)
             THEN /\ Returns([call |-> "write_image", status |-> "BufferTooSmall"])
                  /\ UNCHANGED <<frame_version, buffer_data_size, buffer_ready,
                                 data, hdr, pc>>
             ELSE IF \/ ~ Initialized(img)
                     \/ ULess(mgr[img].buffer_size_, total_size)
                     \/ UPositive(buffer_reader_count[idx])
               THEN /\ Returns([call |-> "write_image", status |-> "BufferInUse"])
                    /\ UNCHANGED <<frame_version, buffer_data_size, buffer_ready,
                                   data, hdr, pc>>
               ELSE \/ /\ LifeBlocks(img)
                       /\ Returns(NoReturn)
                       /\ buffer_ready' = [buffer_ready EXCEPT ![idx] = FALSE]
                       /\ UNCHANGED <<frame_version, buffer_data_size, data, hdr>>
                    \/ /\ Returns([call |-> "write_image", status |-> "Success"])
                       /\ hdr' = [hdr EXCEPT ![idx] =
                                    PreparedHeader(n, width, height, channels,
                                                   format, frame_type)]
                       /\ data' = [data EXCEPT ![idx] = Copied(@, n, b)]
                       /\ InternalCommit(idx, total_size, v)
                       /\ UNCHANGED pc
  /\ UNCHANGED <<buffer_reader_count, mgr, shm, lw, lr>>
  /\ UNCHANGED <<state_mutex, wg, wkept, rg, wver, rprev, rhidden,
                 wguards, rguards, read_guards, creads>>

\* what read_image(out, cap, ...) returns on the region as it stands, when
\* it returns: its status and, on Success, what it stored through its
\* out-parameters
ReadImage(cap) ==
  LET sel == ReadSelect(buffer_ready, frame_version)
      idx == sel.latest_idx
      size == buffer_data_size[idx]
      header == hdr[idx]
  IN
  IF ~ Initialized(img) \/ ~ sel.found_latest
    THEN [call |-> "read_image", status |-> "NoDataAvailable"]
    ELSE IF ULess(size, HEADER_SIZE)
      THEN [call |-> "read_image", status |-> "InvalidArguments"]
      ELSE IF ULess(size, HEADER_SIZE + header.data_size)
        THEN [call |-> "read_image", status |-> "InvalidArguments"]
        ELSE IF ULess(cap, header.data_size)
          THEN [call |-> "read_image", status |-> "BufferTooSmall"]
          ELSE [call |-> "read_image", status |-> "Success",
                out |-> Bytes(idx, header.data_size),
                width |-> header.width, height |-> header.height,
                channels |-> header.channels, data_size |-> header.data_size,
                frame_version |-> frame_version[idx],
                format |-> header.format, frame_type |-> header.frame_type]

\* read_image as it would be if its early exits after the acquisition
\* (size mismatch, BufferTooSmall) returned without releasing the guard
I_ReadImageKeepsGuardOnEarlyExit(cap) ==
  /\ ImageCall
  /\ LET sel == ReadSelect(buffer_ready, frame_version)
         idx == sel.latest_idx
     IN
       IF ~ Initialized(img) \/ ~ sel.found_latest
         THEN /\ Returns(ReadImage(cap))
              /\ UNCHANGED <<buffer_reader_count, pc>>
         ELSE \/ /\ LifeBlocks(img)
                 /\ Returns(NoReturn)
                 /\ buffer_reader_count' =
                      [buffer_reader_count EXCEPT ![idx] = UInc(@)]
              \/ /\ Returns(ReadImage(cap))
                 /\ buffer_reader_count' =
                      [buffer_reader_count EXCEPT ![idx] =
                         IF ReadImage(cap).status = "Success"
                           THEN UDec(UInc(@)) ELSE UInc(@)]
                 /\ UNCHANGED pc
  /\ UNCHANGED <<frame_version, buffer_data_size, buffer_ready, data, hdr,
                 mgr, shm, lw, lr>>
  /\ UNCHANGED <<state_mutex, wg, wkept, rg, wver, rprev, rhidden,
                 wguards, rguards, read_guards, creads>>

\* img.read_image(out, cap, ...): its guard takes and gives back the reader
\* count of the buffer it selects
I_ReadImage(cap) ==
  /\ ImageCall
  /\ LET sel == ReadSelect(buffer_ready, frame_version)
         idx == sel.latest_idx
     IN
       IF ~ Initialized(img) \/ ~ sel.found_latest
         THEN /\ Returns(ReadImage(cap))
              /\ UNCHANGED <<buffer_reader_count, pc>>
         ELSE \/ /\ LifeBlocks(img)
                 /\ Returns(NoReturn)
                 /\ buffer_reader_count' =
                      [buffer_reader_count EXCEPT ![idx] = UInc(@)]
              \/ /\ Returns(ReadImage(cap))
                 /\ buffer_reader_count' =
                      [buffer_reader_count EXCEPT ![idx] = UDec(UInc(@))]
                 /\ UNCHANGED pc
  /\ UNCHANGED <<frame_version, buffer_data_size, buffer_ready, data, hdr,
                 mgr, shm, lw, lr>>
  /\ UNCHANGED <<state_mutex, wg, wkept, rg, wver, rprev, rhidden,
                 wguards, rguards, read_guards, creads>>

\* img.write_and_switch(x, n, v) for bytes x that are not a frame of
\* write_image: the first HEADER_SIZE of them (fewer when n is smaller) are
\* the ImageHeader header, the rest are bytes b
I_WriteAndSwitch(n, header, b, v) ==
  /\ ImageCall
  /\ LET idx == WriteSelect(frame_version) IN
       IF n = 0
         THEN /\ Returns([call |-> "write_and_switch", status |-> "InvalidArguments"])
              /\ UNCHANGED <<frame_version, buffer_data_size, buffer_ready,
                             data, hdr, pc>>
         ELSE IF \/ ~ Initialized(img)
                 \/ ULess(mgr[img].buffer_size_, n)
                 \/ UPositive(buffer_reader_count[idx])
           THEN /\ Returns([call |-> "write_and_switch", status |-> "AcquireFailed"])
                /\ UNCHANGED <<frame_version, buffer_data_size, buffer_ready,
                               data, hdr, pc>>
           ELSE \/ /\ LifeBlocks(img)
                   /\ Returns(NoReturn)
                   /\ buffer_ready' = [buffer_ready EXCEPT ![idx] = FALSE]
                   /\ UNCHANGED <<frame_version, buffer_data_size, data, hdr>>
                \/ /\ Returns([call |-> "write_and_switch", status |-> "Success"])
                   /\ hdr' = [hdr EXCEPT ![idx] = header]
                   /\ data' = [data EXCEPT ![idx] =
                                 IF n > HEADER_SIZE
                                   THEN Copied(@, n - HEADER_SIZE, b)
                                   ELSE @]
                   /\ InternalCommit(idx, n, v)
                   /\ UNCHANGED pc
  /\ UNCHANGED <<buffer_reader_count, mgr, shm, lw, lr>>
  /\ UNCHANGED <<state_mutex, wg, wkept, rg, wver, rprev, rhidden,
                 wguards, rguards, read_guards, creads>>

\* the sizes of the raw frames the thread writes: one byte short of a
\* header, and a header with 0 .. BufSize bytes after it
RawSizes == {HEADER_SIZE - 1} \cup {HEADER_SIZE + k : k \in 0 .. BufSize}

\* the headers that the first bytes of the raw frames are: they differ in
\* the size they announce
RawHeaders ==
  {[format |-> "BGR", width |-> 1, height |-> 1, channels |-> 3,
    data_size |-> d, frame_type |-> 1] : d \in 0 .. BufSize + 1}

\* img.create_and_init(ImageTotalSize, ImageBufferSize), its system calls
\* succeeding
I_CreateAndInit ==
  /\ calls < ImgCalls
  /\ L_CreateAndInit(img, ImageTotalSize, ImageBufferSize, "ok")

\* img.unmap_and_close()
I_UnmapAndClose ==
  /\ calls < ImgCalls
  /\ L_UnmapAndClose(img, "ok")

ImageNext ==
  \/ I_CreateAndInit
  \/ I_UnmapAndClose
  \/ \E n \in 0 .. BufSize + 1, b \in 1 .. MaxByte, width \in 0 .. 1,
        height \in 0 .. 1, channels \in 2 .. 3, v \in 0 .. MaxSeqVersion,
        format \in ImageFormats, frame_type \in 0 .. 1 :
       I_WriteImage(n, b, width, height, channels, v, format, frame_type)
  \/ \E cap \in 0 .. BufSize : I_ReadImage(cap)
  \/ \E n \in RawSizes, header \in RawHeaders, v \in 1 .. MaxSeqVersion :
       I_WriteAndSwitch(n, header, 1, v)

SpecImage == Init /\ [][ImageNext]_vars

\* ------------------------------------------------ properties of SpecImage

\* C23: after write_image(x, n, width, height, channels, v, format,
\* frame_type) is accepted, with v larger than the version of every buffer
\* of the region, a read_image with capacity >= n that succeeds before any
\* other commit returns width, height, channels, format and frame_type as
\* passed, data size n, frame version v and the bytes x.
C23_FramingIntegrity ==
  [][\A n \in 0 .. BufSize + 1, b \in 1 .. MaxByte, width \in 0 .. 1,
        height \in 0 .. 1, channels \in 2 .. 3, v \in 0 .. MaxSeqVersion,
        format \in ImageFormats, frame_type \in 0 .. 1 :
       ( /\ I_WriteImage(n, b, width, height, channels, v, format, frame_type)
         /\ ret'.status = "Success"
         /\ \A i \in Buffers : ULess(frame_version[i], v) ) =>
           \A cap \in n .. BufSize :
             ReadImage(cap)'.status = "Success" =>
               ReadImage(cap)' =
                 [call |-> "read_image", status |-> "Success",
                  out |-> Payload(n, b),
                  width |-> width, height |-> height, channels |-> channels,
                  data_size |-> n, frame_version |-> v,
                  format |-> format, frame_type |-> frame_type]]_vars

\* C24: a read_image that selects a frame and returns answers
\* InvalidArguments whenever the committed size of that frame differs from
\* HEADER_SIZE + header.data_size, smaller or larger; answers BufferTooSmall
\* when the sizes agree and header.data_size exceeds the capacity; and in
\* both cases has copied no payload byte.
C24_ReadImageSizeChecks ==
  [][\A cap \in 0 .. BufSize :
       LET sel == ReadSelect(buffer_ready, frame_version)
           size == buffer_data_size[sel.latest_idx]
           announced == HEADER_SIZE + hdr[sel.latest_idx].data_size
       IN
       ( /\ I_ReadImage(cap)
         /\ pc' = pc
         /\ Initialized(img)
         /\ sel.found_latest ) =>
           /\ size # announced => ret'.status = "InvalidArguments"
           /\ (size = announced /\ hdr[sel.latest_idx].data_size > cap) =>
                ret'.status = "BufferTooSmall"
           /\ ret'.status \in {"InvalidArguments", "BufferTooSmall"} =>
                "out" \notin DOMAIN ret']_vars

\* C25: a write_image on the attached manager that returns answers
\* InvalidArguments only for empty data, BufferTooSmall exactly when the
\* data is not empty and HEADER_SIZE + n exceeds the buffer size, and
\* BufferInUse only when the buffer the writer would get is pinned; a
\* rejected call changes no control cell and no byte; every other call,
\* whatever its width, height, channels and format, commits the frame and
\* returns Success.
C25_WriteImageRejections ==
  [][\A n \in 0 .. BufSize + 1, b \in 1 .. MaxByte, width \in 0 .. 1,
        height \in 0 .. 1, channels \in 2 .. 3, v \in 0 .. MaxSeqVersion,
        format \in ImageFormats, frame_type \in 0 .. 1 :
       LET idx == WriteSelect(frame_version)
           pinned == UPositive(buffer_reader_count[idx])
           fits == HEADER_SIZE + n <= ImageBufferSize
       IN
       ( /\ I_WriteImage(n, b, width, height, channels, v, format, frame_type)
         /\ pc' = pc
         /\ Initialized(img) ) =>
           /\ ret'.status = "InvalidArguments" => n = 0
           /\ ret'.status = "BufferTooSmall" <=> (n # 0 /\ ~ fits)
           /\ ret'.status = "BufferInUse" => pinned
           /\ ret'.status # "Success" =>
                (ControlUnchanged /\ UNCHANGED <<data, hdr>>)
           /\ (n # 0 /\ fits /\ ~ pinned) =>
                /\ ret'.status = "Success"
                /\ buffer_ready'[idx]
                /\ frame_version'[idx] = v]_vars

\* C26: read_image on a manager that is not initialized, never opened or
\* closed, returns NotInitialized, not NoDataAvailable.
C26_ReadStatusNotCoerced ==
  [][\A cap \in 0 .. BufSize :
       (I_ReadImage(cap) /\ ~ Initialized(img)) =>
         ret'.status = "NotInitialized"]_vars

\* C35: when read_image, write_image or write_and_switch returns, with any
\* status (the early exits of read_image for a size mismatch and
\* BufferTooSmall included), every reader_count equals its value before the
\* call: no reservation the call took remains.
C35_ReleaseOnEveryExit ==
  [][(/\ calls' # calls
      /\ ret'.call \in {"read_image", "write_image", "write_and_switch"})
     => buffer_reader_count' = buffer_reader_count]_vars

\* C35: read_image has just left by an early exit taken after its
\* acquisition, on a region with a ready frame, and no reader count is held
C35_Witness ==
  /\ ret.call = "read_image"
  /\ ret.status \in {"InvalidArguments", "BufferTooSmall"}
  /\ \E i \in Buffers : buffer_ready[i] /\ UPositive(frame_version[i])
  /\ \A i \in Buffers : buffer_reader_count[i] = 0

\* ------------------------------------------- further properties of SpecSeq

\* C27: every write_and_switch returns: with AcquireFailed when its
\* acquisitions fail, the buffer the writer would get being pinned or the
\* payload larger than a buffer, and otherwise, for a payload that is not
\* empty, with Success after it copied the bytes and committed the frame.
C27_WriteAndSwitchBounded ==
  [][\A n \in 0 .. (BufSize + 1), b \in 1 .. MaxByte, v \in 0 .. MaxSeqVersion :
       LET idx == WriteSelect(frame_version)
           fails == ULess(BufSize, n) \/ UPositive(buffer_reader_count[idx])
       IN
       S_WriteAndSwitch(n, b, v) =>
         /\ pc' = pc
         /\ ret'.call = "write_and_switch"
         /\ (n # 0 /\ fails) => ret'.status = "AcquireFailed"
         /\ (n # 0 /\ ~ fails) =>
              /\ ret'.status = "Success"
              /\ Bytes(idx, n)' = Payload(n, b)
              /\ buffer_ready'[idx]
              /\ frame_version'[idx] = v
              /\ buffer_data_size'[idx] = n]_vars

\* C29: a try_read_latest with capacity above 0 that returns has made one
\* reader acquisition and given its count back; it returns Success exactly
\* when that acquisition selects a buffer, and has then copied the first
\* min(capacity, committed size) bytes of that buffer and reports that
\* number as the actual size; when the acquisition fails it returns the
\* guard's status, NoDataAvailable, and has copied nothing.
C29_TryReadLatest ==
  [][\A cap \in 1 .. BufSize :
       LET sel == ReadSelect(buffer_ready, frame_version)
           size == buffer_data_size[sel.latest_idx]
           copied == IF cap < size THEN cap ELSE size
       IN
       (S_TryReadLatest(cap) /\ pc' = pc) =>
         /\ UNCHANGED region
         /\ IF sel.found_latest
              THEN ret' = [call |-> "try_read_latest", status |-> "Success",
                           actual_size |-> copied,
                           out |-> [k \in 1 .. copied |->
                                      data[sel.latest_idx][k]]]
              ELSE /\ ret'.status = "NoDataAvailable"
                   /\ "out" \notin DOMAIN ret']_vars

\* C29: a try_read_latest returned Success with actual size 1 while the one
\* ready buffer holds a committed frame of 2 bytes: the capacity was the
\* smaller of the two
C29_Witness ==
  /\ ret.call = "try_read_latest"
  /\ ret.status = "Success"
  /\ ret.actual_size = 1
  /\ \E i \in Buffers :
       /\ \A j \in Buffers : buffer_ready[j] <=> j = i
       /\ buffer_data_size[i] = BufSize
       /\ ret.out = <<data[i][1]>>

\* C30: a try_read_latest that returns a status other than Success has
\* written none of the caller's out-parameters: neither the actual size nor
\* the output buffer.
C30_OutParametersOnlyOnSuccess ==
  [][\A cap \in 0 .. BufSize :
       (S_TryReadLatest(cap) /\ pc' = pc /\ ret'.status # "Success") =>
         DOMAIN ret' = {"call", "status"}]_vars

\* C32: a writer acquisition that fails (expected_size > B, or the
\* minimum-version buffer pinned) and a reader acquisition that fails (no
\* buffer to select), through the guards or the C interface, leave every
\* control cell of every buffer (ready, frame_version, data_size,
\* reader_count) unchanged.
C32_FailedAcquisitionsChangeNothing ==
  [][/\ \A s \in WSlots :
          (WriteAcquisition(s) /\ ~ wguards'[s].buffer_) => ControlUnchanged
     /\ \A s \in RSlots :
          (ReadAcquisition(s) /\ ~ rguards'[s].buffer_) => ControlUnchanged
     /\ (S_CAcquireRead /\ creads' = creads /\ pc' = pc) => ControlUnchanged
    ]_vars

\* C32: a writer acquisition with expected_size <= B has just failed on the
\* minimum-version buffer, which a reader pins: the buffer is still ready
\* and its reader count is 1
C32_Witness ==
  \E s \in WSlots, r \in RSlots :
    /\ calls = MaxCalls
    /\ wguards[s].live /\ ~ wguards[s].buffer_
    /\ ~ ULess(BufSize, wguards[s].capacity_)
    /\ Pinning(r)
    /\ OldestBuffer(rguards[r].buffer_idx_)
    /\ buffer_ready[rguards[r].buffer_idx_]
    /\ buffer_reader_count[rguards[r].buffer_idx_] = 1
    /\ \A i \in Buffers : buffer_ready[i]

\* ------------------------------------------ further properties of SpecLife

\* C32, on a manager that is not initialized: a writer acquisition and a
\* reader acquisition through it fail and leave every control cell of the
\* region, which another manager may map, unchanged.
C32_NotInitializedChangesNothing ==
  [][\A m \in Managers :
       /\ (L_AcquireWrite(m, 1) /\ ~ Initialized(m)) =>
            (~ lw'[m].buffer_ /\ ControlUnchanged)
       /\ (L_AcquireRead(m) /\ ~ Initialized(m)) =>
            (~ lr'[m].buffer_ /\ ControlUnchanged)]_vars

\* C35, for the operations of ShmManager, with a second manager that may
\* hold a reader guard meanwhile: when try_read_latest, wait_and_read or
\* write_and_switch returns, every reader_count equals its value before the
\* call, or before the turn of wait_and_read's loop that returned.
C35_ReleaseOnEveryExitOfManager ==
  [][ret'.call \in {"try_read_latest", "wait_and_read", "write_and_switch"}
       => buffer_reader_count' = buffer_reader_count]_vars

\* get_data_buffer's offset of buffer buffer_idx from the base of the
\* mapping: sizeof(ShmBufferControl) + buffer_idx * buffer_size_, the product
\* in size_t
DataBufferOffset(buffer_idx, buffer_size) ==
  HeaderSize + ((buffer_idx * buffer_size) % SizeModulus)

\* C40: a manager initialized with an accepted layout (T, B) has
\* HeaderSize + NUM_BUFFERS * B <= T as numbers, and each data buffer, at the
\* offset get_data_buffer computes, starts at HeaderSize + i * B, after the
\* header, and ends within the T mapped bytes, also for B so large that the
\* size_t sum wraps around.
C40_BuffersInsideRegion ==
  \A m \in Managers :
    Initialized(m) =>
      /\ HeaderSize + NUM_BUFFERS * mgr[m].buffer_size_ <= mgr[m].current_shm_size_
      /\ \A i \in Buffers :
           /\ DataBufferOffset(i, mgr[m].buffer_size_)
                = HeaderSize + i * mgr[m].buffer_size_
           /\ DataBufferOffset(i, mgr[m].buffer_size_) + mgr[m].buffer_size_
                <= mgr[m].current_shm_size_

\* C37: a manager in state Closed or Uninitialized is brought back to an
\* initialized state by a fresh call: open_and_map with an accepted layout,
\* made while the object exists and no system call fails, returns Success
\* and leaves the manager Mapped (so the reconnect loop that retries
\* open_and_map ends); likewise create_and_init leaves it Created.
C37_ReinitializationAfterClose ==
  [][\A m \in Managers, T \in TotalSizes, B \in BufferSizes :
       (/\ mgr[m].state_ \in {"Closed", "Uninitialized"}
        /\ validate_buffer_layout(T, B) = "Success"
        /\ shm.exists)
       => /\ L_OpenAndMap(m, T, B, "ok")
             => (ret'.status = "Success" /\ mgr'[m].state_ = "Mapped")
          /\ L_CreateAndInit(m, T, B, "ok")
             => (ret'.status = "Success" /\ mgr'[m].state_ = "Created")]_vars

\* a turn of the loop of m.wait_and_read(out, BufSize, &actual)
WaitTurn(m) == L_WaitAndRead(m, BufSize) \/ L_WaitRetry(m, BufSize)

\* C28: through an attached manager, a turn of wait_and_read's loop that
\* does not block leaves the call waiting while no buffer is ready, and,
\* when one committed frame is in the region, ends the call with Success,
\* actual size min(capacity, committed size) and the committed bytes; so
\* that, the writer staying idle, the call returns at the reader's next
\* turn.
C28_WaitAndReadReturns ==
  [][\A m \in Managers :
       (WaitTurn(m) /\ Initialized(m) /\ pc'[m] # "blocked") =>
         /\ (\A i \in Buffers : ~ buffer_ready[i]) => pc'[m] = "waiting"
         /\ \A i \in Buffers :
              (\A j \in Buffers : buffer_ready[j] <=> j = i) =>
                LET size == IF buffer_data_size[i] < BufSize
                              THEN buffer_data_size[i]
                              ELSE BufSize
                IN
                /\ pc'[m] = "idle"
                /\ ret' = [call |-> "wait_and_read", status |-> "Success",
                           actual_size |-> size,
                           out |-> [k \in 1 .. size |-> data[i][k]]]]_vars

\* ------------------------------------ further properties of Spec, SpecHold

\* C31: in a writer acquisition on buffer i the store ready[i] = false comes
\* before the check of reader_count[i]: when the writer loads the count the
\* buffer is already hidden, so a writer that aborts on a non-zero count
\* leaves i hidden.
C31_HideBeforeCheck ==
  [][W_CheckReaders => ~ buffer_ready[wg.buffer_idx_]]_vars

\* C33: a commit stores data_size[i], then frame_version[i], then ready[i] =
\* true: at the store of the version the size is already the commit's, at
\* the store of ready the size and the version are; a buffer becomes ready
\* only by that last store, and while it stays ready its data_size and
\* frame_version stay as they are or are, both, those of one commit.  Hence
\* in every reachable state a ready buffer has the data_size and
\* frame_version of one and the same commit, the most recent on it.
C33_CommitPublicationOrder ==
  [][/\ W_StoreVersion => buffer_data_size[wg.buffer_idx_] = wg.filled
     /\ W_StoreReady =>
          /\ buffer_data_size[wg.buffer_idx_] = wg.filled
          /\ frame_version[wg.buffer_idx_] = wver + 1
     /\ \A i \in Buffers :
          /\ (~ buffer_ready[i] /\ buffer_ready'[i]) =>
               (W_StoreReady /\ i = wg.buffer_idx_)
          /\ (buffer_ready[i] /\ buffer_ready'[i]) =>
               \/ /\ frame_version'[i] = frame_version[i]
                  /\ buffer_data_size'[i] = buffer_data_size[i]
               \/ /\ i = wg.buffer_idx_
                  /\ frame_version'[i] = wver + 1
                  /\ buffer_data_size'[i] = wg.filled]_vars

\* C34: a buffer is hidden from the moment a writer acquisition on it returns
\* until the next commit on it: while the writer holds its reservation the
\* buffer is not ready; a buffer that is not ready becomes ready only by a
\* commit's last store, so it stays hidden when the reservation is dropped
\* without commit; and a reader acquisition whose scan began while the buffer
\* was hidden does not return it before a commit has published it.
C34_ReservedBuffersHidden ==
  /\ [](pc["w"] = "w_hold" => ~ buffer_ready[wg.buffer_idx_])
  /\ [][\A i \in Buffers :
          (~ buffer_ready[i] /\ buffer_ready'[i]) =>
            (W_StoreReady /\ i = wg.buffer_idx_)]_vars
  /\ [](pc["r"] = "r_hold" => rg.buffer_idx_ \notin rhidden)

\* C34: the writer has dropped, without commit, its reservation on buffer 0,
\* which holds the frame of version 1; a reader whose scan began after that
\* has returned another buffer, and buffer 0 is still hidden
C34_Witness ==
  /\ pc["w"] = "idle"
  /\ wver = NUM_BUFFERS
  /\ frame_version[0] = 1
  /\ ~ buffer_ready[0]
  /\ 0 \in rhidden
  /\ pc["r"] = "r_hold"
  /\ rg.buffer_idx_ # 0

\* C38: with the one writer committing the versions 1, 2, 3, ... into the
\* ring of NUM_BUFFERS buffers, in every state after the first commit has
\* completed some buffer holds the version of the latest completed commit,
\* that buffer is ready, and it is not the buffer a writer acquisition has
\* selected or been granted; so at least one buffer is ready.
C38_NewestFrameKept ==
  wver > 0 =>
    \E i \in Buffers :
      /\ frame_version[i] = wver
      /\ buffer_ready[i]
      /\ pc["w"] # "idle" => wg.buffer_idx_ # i

\* C38: the ring has gone round (more commits than buffers), the writer
\* holds a buffer it was granted after that and a reader holds a guard
C38_Witness ==
  /\ wver > NUM_BUFFERS
  /\ pc["w"] = "w_hold"
  /\ wg.filled = 1
  /\ pc["r"] = "r_hold"

\* C39: the data size and the frame version that a successful reader
\* acquisition reports were stored by one and the same commit on the
\* returned buffer, whatever the writer process does meanwhile.
C39_ReaderMetadataOfOneCommit ==
  pc["r"] = "r_hold" => rg.size_commit = rg.frame_version_

\* C38, for the writer process of SpecHold, which may hold two guards on one
\* buffer: after the first commit some buffer is ready, a buffer that holds
\* the version of the latest completed commit is ready, and the buffer an
\* acquisition selects is not one that holds that version.
C38_NewestFrameKeptWithTwoGuards ==
  /\ [](wver > 0 =>
         /\ \E i \in Buffers : buffer_ready[i]
         /\ \A i \in Buffers : frame_version[i] = wver => buffer_ready[i])
  /\ [][\A e \in 0 .. BufSize + 1 :
          (W_Acquire(e) /\ wver > 0 /\ pc'["w"] # "idle")
            => frame_version[wg'.buffer_idx_] # wver]_vars

=============================================================================
